---- MODULE Spec2Model ----
(***************************************************************************)
(* State-machine model of arrayshow's NDArrayViewer                        *)
(* (src/src/arrayshow/viewer.py): the per-dimension role table, the        *)
(* indices, playback, the complex/FFT mode flags and the slice / mosaic    *)
(* computation.  Dimensions are numbered from 0 as in the source.  An      *)
(* array element is identified by its multi-index, so an image is a        *)
(* function from pixel positions to multi-indices of the active array.     *)
(***************************************************************************)
EXTENDS Integers, FiniteSets, Sequences, TLC

VARIABLES
    dims,               \* self.dims: [0..ndim-1 -> [role, index, size]]
    scroll_dim_idx,     \* self.scroll_dim_idx (-1 when there is none)
    is_playing,         \* self.is_playing (the QTimer runs iff this is TRUE)
    loop_checked,       \* self.loop_checkbox.isChecked()
    is_complex_data,    \* self.is_complex_data
    complex_view_mode,  \* self.complex_view_mode
    data,               \* self.data: which projection of the input it holds
    is_fft_view,        \* self.is_fft_view
    fft_data,           \* self.fft_data: None, or what it was computed from
    fft_dims,           \* self.fft_dims: None, or the sorted axis list
    launch,             \* the arrayshow() call the viewer comes from: its
                        \* arguments, its environment and how it ended
    arrayview           \* the attributes of the matplotlib ArrayView object
                        \* (src/src/arrayview.py), when one was constructed

vars == <<dims, scroll_dim_idx, is_playing, loop_checked, is_complex_data,
          complex_view_mode, data, is_fft_view, fft_data, fft_dims, launch,
          arrayview>>

roleVars == <<dims, scroll_dim_idx>>
modeVars == <<is_complex_data, complex_view_mode, data, is_fft_view,
              fft_data, fft_dims>>

-----------------------------------------------------------------------------
(* Bounds of the model *)

\* largest number of array dimensions
MaxNdim == 5
\* largest number of elements of an array (product of the sizes)
MaxVolume == 2
\* largest number of dimensions of a complex-valued array
MaxComplexNdim == 2
\* the same two bounds for the arrays of the image specification, which has
\* fewer dimensions and more elements
MaxImageNdim == 3
MaxImageVolume == 6
\* arrays for the mosaic layout: up to MaxGridSize elements, so that a
\* dimension of every size up to MaxGridSize can be tiled
MaxGridSize == 12

\* largest slice number that is typed into the ArrayView figure
MaxEnteredSlice == 3

\* smallest number of dimensions __init__ accepts
MinNdim == 2

-----------------------------------------------------------------------------
(* Helpers *)

None == "None"

Min(S) == CHOOSE m \in S : \A k \in S : m <= k
Max(S) == CHOOSE m \in S : \A k \in S : m >= k

Ndim(ds) == Cardinality(DOMAIN ds)

RECURSIVE Volume(_, _)
Volume(shape, n) == IF n = 0 THEN 1 ELSE shape[n - 1] * Volume(shape, n - 1)

\* an attribute that has not been assigned
Unset == "unset"

\* array shapes with fewer than MinNdim dimensions (the scalar included), at
\* most maxVol elements
ShortShapes(maxVol) ==
    UNION { [0 .. n - 1 -> 1 .. maxVol] : n \in 0 .. MinNdim - 1 }

\* array shapes with MinNdim..maxNdim dimensions, sizes >= 1, at most maxVol
\* elements
ShapesUpTo(maxNdim, maxVol) ==
    UNION { { s \in [0 .. n - 1 -> 1 .. maxVol] : Volume(s, n) <= maxVol }
            : n \in MinNdim .. maxNdim }

\* "view" in role
IsView(role) == role \in {"view_x", "view_y", "view_grid"}

Roles == {"view_x", "view_y", "view_grid", "scroll", "fixed"}

\* next(i for i, d in enumerate(self.dims) if d["role"] == r), default dflt
FirstWithRole(ds, r, dflt) ==
    IF \E i \in DOMAIN ds : ds[i].role = r
    THEN Min({i \in DOMAIN ds : ds[i].role = r})
    ELSE dflt

-----------------------------------------------------------------------------
(* Role table *)

\* faulty variant: every index starts at 0 instead of the middle
assign_initial_roles_index_zero(shape) ==
    [i \in DOMAIN shape |->
        [role  |-> IF i = 0 THEN "view_x"
                   ELSE IF i = 1 THEN "view_y"
                   ELSE IF i = 2 /\ Cardinality(DOMAIN shape) > 2 THEN "scroll"
                   ELSE "fixed",
         index |-> 0,
         size  |-> shape[i]]]

assign_initial_roles(shape) ==
    [i \in DOMAIN shape |->
        [role  |-> IF i = 0 THEN "view_x"
                   ELSE IF i = 1 THEN "view_y"
                   ELSE IF i = 2 /\ Cardinality(DOMAIN shape) > 2 THEN "scroll"
                   ELSE "fixed",
         index |-> shape[i] \div 2,
         size  |-> shape[i]]]

update_scroll_dim_index(ds) == FirstWithRole(ds, "scroll", -1)

\* The role operations return the role table together with the cached
\* scroll_dim_idx they leave behind.
RoleState(ds, sidx) == [dims |-> ds, scroll_dim_idx |-> sidx]

\* found_scroll when the loop reaches dimension i
found_scroll(ds, i) == \E j \in DOMAIN ds : j < i /\ ~IsView(ds[j].role)

\* faulty variant: a dimension that already has role scroll keeps it
reassign_scroll_and_fixed_keep_scroll(ds) ==
    LET has_scroll == \E j \in DOMAIN ds : ds[j].role = "scroll"
        nd == [i \in DOMAIN ds |->
                  IF ~IsView(ds[i].role)
                  THEN [ds[i] EXCEPT !.role =
                           IF has_scroll
                           THEN (IF ds[i].role = "scroll" THEN "scroll" ELSE "fixed")
                           ELSE IF ~found_scroll(ds, i) THEN "scroll"
                           ELSE "fixed"]
                  ELSE ds[i]]
    IN  RoleState(nd, update_scroll_dim_index(nd))

reassign_scroll_and_fixed(ds) ==
    LET nd == [i \in DOMAIN ds |->
                  IF ~IsView(ds[i].role)
                  THEN [ds[i] EXCEPT !.role = IF ~found_scroll(ds, i) THEN "scroll"
                                              ELSE "fixed"]
                  ELSE ds[i]]
    IN  RoleState(nd, update_scroll_dim_index(nd))

\* faulty variant: a dimension that is made a view axis gets index 0
reassign_all_roles_loop_reset_index(ds, x_idx, y_idx, k) ==
    [i \in DOMAIN ds |->
        IF i < k
        THEN IF i = x_idx THEN [ds[i] EXCEPT !.role = "view_x", !.index = 0]
             ELSE IF i = y_idx THEN [ds[i] EXCEPT !.role = "view_y", !.index = 0]
             ELSE [ds[i] EXCEPT !.role = "fixed"]
        ELSE ds[i]]

\* the role table after the first k iterations of the loop of
\* _reassign_all_roles, which writes the role of one dimension per iteration
reassign_all_roles_loop(ds, x_idx, y_idx, k) ==
    [i \in DOMAIN ds |->
        IF i < k
        THEN [ds[i] EXCEPT !.role = IF i = x_idx THEN "view_x"
                                    ELSE IF i = y_idx THEN "view_y"
                                    ELSE "fixed"]
        ELSE ds[i]]

\* the whole role loop of _reassign_all_roles followed by the re-partition
reassign_all_roles(ds, x_idx, y_idx) ==
    reassign_scroll_and_fixed(reassign_all_roles_loop(ds, x_idx, y_idx, Ndim(ds)))

\* faulty variant: the reverse-pair case is not recognised
set_view_dimension_from_button_no_swap(ds, new_dim_idx, axis) ==
    LET current_x_idx == FirstWithRole(ds, "view_x", -1)
        current_y_idx == FirstWithRole(ds, "view_y", -1)
    IN  IF axis = 0
        THEN reassign_all_roles(ds, new_dim_idx, current_y_idx)
        ELSE reassign_all_roles(ds, current_x_idx, new_dim_idx)

set_view_dimension_from_button(ds, new_dim_idx, axis) ==
    LET current_x_idx == FirstWithRole(ds, "view_x", -1)
        current_y_idx == FirstWithRole(ds, "view_y", -1)
    IN  IF (axis = 0 /\ new_dim_idx = current_y_idx)
           \/ (axis = 1 /\ new_dim_idx = current_x_idx)
        THEN reassign_all_roles(ds, current_y_idx, current_x_idx)
        ELSE IF axis = 0
             THEN reassign_all_roles(ds, new_dim_idx, current_y_idx)
             ELSE reassign_all_roles(ds, current_x_idx, new_dim_idx)

\* faulty variant: the former grid dimension keeps its role
toggle_grid_dimension_keep_grid(ds, sidx, dim_idx) ==
    LET current_role == ds[dim_idx].role
    IN  IF current_role = "view_grid"
        THEN reassign_scroll_and_fixed([ds EXCEPT ![dim_idx].role = "scroll"])
        ELSE IF ~IsView(current_role)
        THEN reassign_scroll_and_fixed([ds EXCEPT ![dim_idx].role = "view_grid"])
        ELSE RoleState(ds, sidx)

\* faulty variant: the role of the dimension is not tested for a view axis
toggle_grid_dimension_any_role(ds, sidx, dim_idx) ==
    LET current_role == ds[dim_idx].role
    IN  IF current_role = "view_grid"
        THEN reassign_scroll_and_fixed([ds EXCEPT ![dim_idx].role = "scroll"])
        ELSE reassign_scroll_and_fixed(
                [i \in DOMAIN ds |->
                    [ds[i] EXCEPT !.role =
                        IF i = dim_idx THEN "view_grid"
                        ELSE IF ds[i].role = "view_grid" THEN "fixed"
                        ELSE ds[i].role]])

toggle_grid_dimension(ds, sidx, dim_idx) ==
    LET current_role == ds[dim_idx].role
    IN  IF current_role = "view_grid"
        THEN reassign_scroll_and_fixed([ds EXCEPT ![dim_idx].role = "scroll"])
        ELSE IF ~IsView(current_role)
        THEN reassign_scroll_and_fixed(
                [i \in DOMAIN ds |->
                    [ds[i] EXCEPT !.role =
                        IF i = dim_idx THEN "view_grid"
                        ELSE IF ds[i].role = "view_grid" THEN "fixed"
                        ELSE ds[i].role]])
        ELSE RoleState(ds, sidx)

\* faulty variant: the roles are written but scroll_dim_idx is not refreshed
set_scroll_dimension_stale_cache(ds, sidx, new_scroll_idx) ==
    IF IsView(ds[new_scroll_idx].role) THEN RoleState(ds, sidx)
    ELSE IF sidx = new_scroll_idx THEN RoleState(ds, sidx)
    ELSE LET nd == [i \in DOMAIN ds |->
                      [ds[i] EXCEPT !.role =
                          IF i = new_scroll_idx THEN "scroll"
                          ELSE IF sidx # -1 /\ i = sidx THEN "fixed"
                          ELSE ds[i].role]]
         IN  RoleState(nd, sidx)

\* faulty variant: the previous scroll dimension is not turned into fixed
set_scroll_dimension_keep_old(ds, sidx, new_scroll_idx) ==
    IF IsView(ds[new_scroll_idx].role) THEN RoleState(ds, sidx)
    ELSE IF sidx = new_scroll_idx THEN RoleState(ds, sidx)
    ELSE LET nd == [ds EXCEPT ![new_scroll_idx].role = "scroll"]
         IN  RoleState(nd, update_scroll_dim_index(nd))

set_scroll_dimension(ds, sidx, new_scroll_idx) ==
    IF IsView(ds[new_scroll_idx].role) THEN RoleState(ds, sidx)
    ELSE IF sidx = new_scroll_idx THEN RoleState(ds, sidx)
    ELSE LET nd == [i \in DOMAIN ds |->
                      [ds[i] EXCEPT !.role =
                          IF i = new_scroll_idx THEN "scroll"
                          ELSE IF sidx # -1 /\ i = sidx THEN "fixed"
                          ELSE ds[i].role]]
         IN  RoleState(nd, update_scroll_dim_index(nd))

\* cyclable_indices of _change_scroll_dimension_by_cycle (an ascending list)
cyclable_indices(ds) == {i \in DOMAIN ds : ~IsView(ds[i].role)}

\* position of i in the ascending list of S
PosIn(S, i) == Cardinality({j \in S : j < i})
\* element of S at position p of its ascending list
AtPos(S, p) == CHOOSE i \in S : PosIn(S, i) = p

\* faulty variant: the new position stops at the ends of the list
change_scroll_dimension_by_cycle_no_wrap(ds, sidx, direction) ==
    LET cyc == cyclable_indices(ds)
    IN  IF Cardinality(cyc) < 2 THEN RoleState(ds, sidx)
        ELSE IF sidx \in cyc
        THEN LET current_pos == PosIn(cyc, sidx)
                 moved == current_pos + (IF direction = "next" THEN 1 ELSE -1)
                 new_pos == IF moved < 0 THEN 0
                            ELSE IF moved >= Cardinality(cyc) THEN Cardinality(cyc) - 1
                            ELSE moved
             IN  set_scroll_dimension(ds, sidx, AtPos(cyc, new_pos))
        ELSE set_scroll_dimension(ds, sidx, AtPos(cyc, 0))

change_scroll_dimension_by_cycle(ds, sidx, direction) ==
    LET cyc == cyclable_indices(ds)
    IN  IF Cardinality(cyc) < 2 THEN RoleState(ds, sidx)
        ELSE IF sidx \in cyc
        THEN LET current_pos == PosIn(cyc, sidx)
                 new_pos == (current_pos + (IF direction = "next" THEN 1 ELSE -1))
                                % Cardinality(cyc)
             IN  set_scroll_dimension(ds, sidx, AtPos(cyc, new_pos))
        ELSE set_scroll_dimension(ds, sidx, AtPos(cyc, 0))

\* faulty variant: the step is not clamped
step_index_no_clamp(ds, sidx, key) ==
    IF sidx # -1
    THEN [ds EXCEPT ![sidx].index = IF key = "j" THEN @ + 1 ELSE @ - 1]
    ELSE ds

\* the j / k branch of _on_key_press
step_index(ds, sidx, key) ==
    IF sidx # -1
    THEN LET current_val == ds[sidx].index
             max_val == ds[sidx].size - 1
         IN  [ds EXCEPT ![sidx].index =
                 IF key = "j"
                 THEN (IF max_val < current_val + 1 THEN max_val ELSE current_val + 1)
                 ELSE (IF 0 > current_val - 1 THEN 0 ELSE current_val - 1)]
    ELSE ds

\* the g branch of _on_key_press
key_g(ds, sidx) ==
    LET grid_dim_idx == FirstWithRole(ds, "view_grid", -1)
    IN  IF grid_dim_idx # -1 THEN toggle_grid_dimension(ds, sidx, grid_dim_idx)
        ELSE IF sidx # -1 THEN toggle_grid_dimension(ds, sidx, sidx)
        ELSE RoleState(ds, sidx)

\* faulty variant: a slider press never moves the scroll role
on_slider_pressed_no_scroll_set(ds, sidx, dim_idx) == RoleState(ds, sidx)

on_slider_pressed(ds, sidx, dim_idx) ==
    IF ds[dim_idx].role = "fixed" THEN set_scroll_dimension(ds, sidx, dim_idx)
    ELSE RoleState(ds, sidx)

on_slider_moved(ds, dim_idx, value) ==
    IF ~IsView(ds[dim_idx].role) THEN [ds EXCEPT ![dim_idx].index = value]
    ELSE ds

-----------------------------------------------------------------------------
(* Playback *)

\* faulty variant: Play starts the timer without looking for a scroll dimension
toggle_playback_no_scroll_test(playing, sidx) == ~playing

\* _toggle_playback: the new value of is_playing
toggle_playback(playing, sidx) ==
    IF ~playing
    THEN (IF sidx = -1 THEN FALSE ELSE TRUE)
    ELSE FALSE

\* "if self.is_playing: self._toggle_playback()"
stop_if_playing(playing, sidx) ==
    IF playing THEN toggle_playback(playing, sidx) ELSE playing

\* faulty variant: at the last index without loop the tick does nothing
advance_slice_keep_playing(ds, sidx, playing, loop) ==
    IF sidx = -1
    THEN [dims |-> ds, is_playing |-> toggle_playback(playing, sidx)]
    ELSE LET new_index == ds[sidx].index + 1
         IN  IF new_index > ds[sidx].size - 1
             THEN [dims |-> IF loop THEN [ds EXCEPT ![sidx].index = 0] ELSE ds,
                   is_playing |-> playing]
             ELSE [dims |-> [ds EXCEPT ![sidx].index = new_index],
                   is_playing |-> playing]

\* faulty variant: with loop checked the tick at the last index stays there
advance_slice_no_wrap(ds, sidx, playing, loop) ==
    IF sidx = -1
    THEN [dims |-> ds, is_playing |-> toggle_playback(playing, sidx)]
    ELSE LET new_index == ds[sidx].index + 1
         IN  IF new_index > ds[sidx].size - 1
             THEN IF loop
                  THEN [dims |-> ds, is_playing |-> playing]
                  ELSE [dims |-> ds, is_playing |-> toggle_playback(playing, sidx)]
             ELSE [dims |-> [ds EXCEPT ![sidx].index = new_index],
                   is_playing |-> playing]

\* _advance_slice: the role table and is_playing it leaves behind
advance_slice(ds, sidx, playing, loop) ==
    IF sidx = -1
    THEN [dims |-> ds, is_playing |-> toggle_playback(playing, sidx)]
    ELSE LET current_index == ds[sidx].index
             max_index == ds[sidx].size - 1
             new_index == current_index + 1
         IN  IF new_index > max_index
             THEN IF loop
                  THEN [dims |-> [ds EXCEPT ![sidx].index = 0],
                        is_playing |-> playing]
                  ELSE [dims |-> ds,
                        is_playing |-> toggle_playback(playing, sidx)]
             ELSE [dims |-> [ds EXCEPT ![sidx].index = new_index],
                   is_playing |-> playing]

-----------------------------------------------------------------------------
(* Slice and mosaic computation *)

\* one entry of a slicer: slice(None), or an integer position
Full == [all |-> TRUE, at |-> 0]
At(k) == [all |-> FALSE, at |-> k]

\* [slice(None) if "view" in d["role"] else d["index"] for d in self.dims]
view_slicer(ds) ==
    [i \in DOMAIN ds |-> IF IsView(ds[i].role) THEN Full ELSE At(ds[i].index)]

\* active_data[tuple(slicer)] for a slicer with two slice(None) entries a < b:
\* a 2D array whose rows run along a and whose columns run along b
Subarray(ds, slicer) ==
    LET kept == {i \in DOMAIN ds : slicer[i].all}
        a == Min(kept)
        b == Max(kept)
    IN  [h  |-> ds[a].size,
         w  |-> ds[b].size,
         px |-> [p \in (0 .. ds[a].size - 1) \X (0 .. ds[b].size - 1) |->
                    [i \in DOMAIN ds |-> IF i = a THEN p[1]
                                         ELSE IF i = b THEN p[2]
                                         ELSE slicer[i].at]]]

\* ndarray.T of a 2D array
Transpose(img) ==
    [h  |-> img.w,
     w  |-> img.h,
     px |-> [p \in (0 .. img.w - 1) \X (0 .. img.h - 1) |-> img.px[<<p[2], p[1]>>]]]

\* faulty variant: the slice is transposed when view_x comes first
needs_transpose_reversed(x_dim_idx, y_dim_idx) == x_dim_idx < y_dim_idx

\* faulty variant: the slice is never transposed
needs_transpose_never(x_dim_idx, y_dim_idx) == FALSE

\* the transpose decision of _get_single_slice
needs_transpose(x_dim_idx, y_dim_idx) == y_dim_idx < x_dim_idx

get_single_slice(ds, slicer) ==
    LET x_dim_idx == FirstWithRole(ds, "view_x", -1)
        y_dim_idx == FirstWithRole(ds, "view_y", -1)
        slice_data == Subarray(ds, slicer)
    IN  IF needs_transpose(x_dim_idx, y_dim_idx) THEN Transpose(slice_data)
        ELSE slice_data

\* int(np.sqrt(n))
Isqrt(n) == Max({r \in 0 .. n : r * r <= n})

\* faulty variant: all tiles in one row
calculate_grid_layout_single_row(num_images) ==
    IF num_images = 0 THEN <<0, 0>> ELSE <<1, num_images>>

\* the loop "for r in range(int(np.sqrt(num_images)), 0, -1)" from r on:
\* best_rows when it ends, 1 if no r divides num_images
RECURSIVE grid_layout_search(_, _)
grid_layout_search(num_images, r) ==
    IF r <= 0 THEN 1
    ELSE IF num_images % r = 0 THEN r
    ELSE grid_layout_search(num_images, r - 1)

\* _calculate_grid_layout: <<rows, cols>>
calculate_grid_layout(num_images) ==
    IF num_images = 0 THEN <<0, 0>>
    ELSE LET best_rows == grid_layout_search(num_images, Isqrt(num_images))
         IN  <<best_rows, num_images \div best_rows>>

\* pixel value of np.zeros before a tile is written over it
ZeroFill == [i \in {} |-> 0]

\* faulty variant: the tiles are placed column by column
tile_position_column_major(i, cols) == <<i % cols, i \div cols>>

\* r, c = i // cols, i % cols
tile_position(i, cols) == <<i \div cols, i % cols>>

build_grid_image(ds, grid_dim_idx) ==
    LET num_images == ds[grid_dim_idx].size
        slicer(i) == [view_slicer(ds) EXCEPT ![grid_dim_idx] = At(i)]
        template_slice == get_single_slice(ds, slicer(0))
        slice_h == template_slice.h
        slice_w == template_slice.w
        layout == calculate_grid_layout(num_images)
        rows == layout[1]
        cols == layout[2]
        \* the tiles whose block holds pixel p; the loop writes them in
        \* ascending order, so the last one stays
        writers(p) == {i \in 0 .. num_images - 1 :
                          /\ p[1] \div slice_h = tile_position(i, cols)[1]
                          /\ p[2] \div slice_w = tile_position(i, cols)[2]}
    IN  [h  |-> rows * slice_h,
         w  |-> cols * slice_w,
         px |-> [p \in (0 .. rows * slice_h - 1) \X (0 .. cols * slice_w - 1) |->
                    IF writers(p) = {} THEN ZeroFill
                    ELSE get_single_slice(ds, slicer(Max(writers(p))))
                            .px[<<p[1] % slice_h, p[2] % slice_w>>]]]

get_display_image(ds) ==
    LET grid_dim_idx == FirstWithRole(ds, "view_grid", -1)
    IN  IF grid_dim_idx = -1 THEN get_single_slice(ds, view_slicer(ds))
        ELSE build_grid_image(ds, grid_dim_idx)

\* _get_view_indices: slice(None) for view_x and view_y, the index for every
\* other dimension, the grid dimension included
get_view_indices(ds) ==
    [i \in DOMAIN ds |-> IF ds[i].role \in {"view_x", "view_y"} THEN Full
                         ELSE At(ds[i].index)]

\* display_slice of _on_mouse_move: active_data[view_indices], as extracted
crosshair_slice(ds) == Subarray(ds, get_view_indices(ds))

\* faulty variant: the tile loop writes the tile number into the grid
\* dimension's index instead of into its local slicer
render_writes_index(ds) ==
    LET grid_dim_idx == FirstWithRole(ds, "view_grid", -1)
    IN  [image |-> get_display_image(ds),
         dims |-> IF grid_dim_idx = -1 THEN ds
                  ELSE [ds EXCEPT ![grid_dim_idx].index = ds[grid_dim_idx].size - 1]]

\* the call of _get_display_image in _update_view: the image it returns and
\* the role table it leaves (slicer is a local list, self.dims is only read)
render(ds) == [image |-> get_display_image(ds), dims |-> ds]

-----------------------------------------------------------------------------
(* Text prompts: what the user types is a list of whitespace-separated     *)
(* tokens, each an integer literal or something int() rejects               *)

Tok(n) == [int |-> TRUE, v |-> n]
Junk == [int |-> FALSE, v |-> 0]

\* the dialog was cancelled or left empty: not (ok and text)
Cancel == [ok |-> FALSE, parts |-> << >>]
Text(parts) == [ok |-> TRUE, parts |-> parts]

\* what is typed into the view-dimension prompt of an ndim-dimensional
\* viewer: pairs over the first two axes and the last one, and lists that are
\* rejected
ViewPromptInputs(ndim) ==
    {Cancel, Text(<< >>), Text(<<Tok(0)>>), Text(<<Tok(0), Tok(1), Tok(0)>>),
     Text(<<Tok(-1), Tok(0)>>), Text(<<Tok(0), Tok(ndim)>>),
     Text(<<Junk, Tok(0)>>), Text(<<Tok(1), Junk>>)}
    \cup {Text(<<Tok(a), Tok(b)>>) : a \in {0, 1, ndim - 1}, b \in {0, 1, ndim - 1}}

\* what is typed into the FFT prompt: lists of the first two axes (unsorted,
\* with duplicates), and lists that are rejected
FftPromptInputs(ndim) ==
    {Cancel, Text(<< >>), Text(<<Tok(1), Tok(0)>>), Text(<<Tok(1), Tok(0), Tok(1)>>),
     Text(<<Tok(-1)>>), Text(<<Tok(0), Tok(ndim)>>), Text(<<Tok(0), Junk>>)}

\* faulty variant: a pair of equal indices is passed on to _reassign_all_roles
prompt_for_view_dims_no_distinct_test(ds, sidx, inp) ==
    IF ~inp.ok THEN RoleState(ds, sidx)
    ELSE IF Len(inp.parts) # 2 THEN RoleState(ds, sidx)
    ELSE IF ~inp.parts[1].int \/ ~inp.parts[2].int THEN RoleState(ds, sidx)
    ELSE LET x_dim == inp.parts[1].v
             y_dim == inp.parts[2].v
         IN  IF ~(0 <= x_dim /\ x_dim < Ndim(ds) /\ 0 <= y_dim /\ y_dim < Ndim(ds))
             THEN RoleState(ds, sidx)
             ELSE reassign_all_roles(ds, x_dim, y_dim)

\* _prompt_for_view_dims after the playback stop
prompt_for_view_dims(ds, sidx, inp) ==
    IF ~inp.ok THEN RoleState(ds, sidx)
    ELSE IF Len(inp.parts) # 2 THEN RoleState(ds, sidx)
    ELSE IF ~inp.parts[1].int \/ ~inp.parts[2].int THEN RoleState(ds, sidx)
    ELSE LET x_dim == inp.parts[1].v
             y_dim == inp.parts[2].v
         IN  IF ~(0 <= x_dim /\ x_dim < Ndim(ds) /\ 0 <= y_dim /\ y_dim < Ndim(ds))
             THEN RoleState(ds, sidx)
             ELSE IF x_dim = y_dim THEN RoleState(ds, sidx)
             ELSE reassign_all_roles(ds, x_dim, y_dim)

-----------------------------------------------------------------------------
(* Complex projection and FFT view *)

\* modes of _cycle_complex_view, in its order
modes == <<"magnitude", "phase", "real", "imag">>
mode_names == <<"Magnitude", "Phase", "Real", "Imaginary">>

\* mode_map.get(text, "magnitude")
mode_map(text) ==
    IF text = "Magnitude" THEN "magnitude"
    ELSE IF text = "Phase" THEN "phase"
    ELSE IF text = "Real" THEN "real"
    ELSE IF text = "Imaginary" THEN "imag"
    ELSE "magnitude"

\* _get_complex_view_data: the projection of the input it returns; dat is
\* self.data, returned as it is for real input
get_complex_view_data(complex, mode, dat) ==
    IF ~complex THEN dat
    ELSE IF mode \in {"magnitude", "phase", "real", "imag"} THEN mode
    ELSE "magnitude"

\* _cycle_complex_view: the new complex_view_mode
cycle_complex_view(mode) ==
    LET current_idx == CHOOSE k \in 1 .. Len(modes) : modes[k] = mode
        next_idx == (current_idx % Len(modes)) + 1
    IN  modes[next_idx]

\* sorted(list(set(S)))
RECURSIVE SortedList(_)
SortedList(S) == IF S = {} THEN << >> ELSE <<Min(S)>> \o SortedList(S \ {Min(S)})

FftState(on, fdata, fdims) ==
    [is_fft_view |-> on, fft_data |-> fdata, fft_dims |-> fdims]

\* _compute_fft: the transform remembers the data and the axes it came from
compute_fft(dat, dims_to_fft) == [of |-> dat, axes |-> dims_to_fft]

\* faulty variant: the axes are not tested against the number of dimensions
prompt_for_fft_dims_no_range_test(fs, ndim, dat, inp) ==
    IF ~inp.ok THEN fs
    ELSE IF inp.parts = << >> THEN [fs EXCEPT !.is_fft_view = FALSE]
    ELSE IF \E k \in 1 .. Len(inp.parts) : ~inp.parts[k].int
    THEN [fs EXCEPT !.is_fft_view = FALSE]
    ELSE LET dims_to_fft == SortedList({inp.parts[k].v : k \in 1 .. Len(inp.parts)})
         IN  FftState(TRUE, compute_fft(dat, dims_to_fft), dims_to_fft)

\* _prompt_for_fft_dims, entered with the FFT view off
prompt_for_fft_dims(fs, ndim, dat, inp) ==
    IF ~inp.ok THEN fs
    ELSE IF inp.parts = << >> THEN [fs EXCEPT !.is_fft_view = FALSE]
    ELSE IF \E k \in 1 .. Len(inp.parts) : ~inp.parts[k].int
    THEN [fs EXCEPT !.is_fft_view = FALSE]
    ELSE LET dims_to_fft == SortedList({inp.parts[k].v : k \in 1 .. Len(inp.parts)})
         IN  IF \E k \in 1 .. Len(dims_to_fft) :
                    ~(0 <= dims_to_fft[k] /\ dims_to_fft[k] < ndim)
             THEN [fs EXCEPT !.is_fft_view = FALSE]
             ELSE FftState(TRUE, compute_fft(dat, dims_to_fft), dims_to_fft)

toggle_fft_view(fs, ndim, dat, inp) ==
    IF fs.is_fft_view THEN FftState(FALSE, None, None)
    ELSE prompt_for_fft_dims(fs, ndim, dat, inp)

\* the active_data property: what the display is computed from
active_data ==
    IF is_fft_view THEN fft_data
    ELSE IF is_complex_data THEN get_complex_view_data(TRUE, complex_view_mode, data)
    ELSE data

-----------------------------------------------------------------------------
(* Initial states: the viewer right after NDArrayViewer.__init__ *)

\* the attributes of the model that __init__ has assigned when it raises
\* ValueError, when the canvas cannot be created, and when it returns
AttrsBeforeNdimTest == {"is_complex_data", "complex_view_mode"}
AttrsBeforeCanvas ==
    AttrsBeforeNdimTest \cup {"data", "dims", "scroll_dim_idx", "is_playing",
                              "is_fft_view", "fft_data", "fft_dims"}
AttrsAll == AttrsBeforeCanvas \cup {"loop_checkbox"}

\* faulty variant: the role table is built before the number of dimensions
\* is tested
NDArrayViewer_init_late_test(shape, complex, canvas_ok) ==
    [raised |-> IF Cardinality(DOMAIN shape) < MinNdim THEN "ValueError"
                ELSE IF canvas_ok THEN None ELSE "CanvasError",
     attrs |-> IF Cardinality(DOMAIN shape) >= MinNdim /\ canvas_ok THEN AttrsAll
               ELSE AttrsBeforeCanvas,
     dims |-> assign_initial_roles(shape),
     scroll_dim_idx |-> update_scroll_dim_index(assign_initial_roles(shape)),
     is_playing |-> FALSE,
     loop_checked |-> IF canvas_ok THEN TRUE ELSE Unset,
     is_complex_data |-> complex,
     complex_view_mode |-> "magnitude",
     data |-> IF complex THEN "magnitude" ELSE "plain",
     is_fft_view |-> FALSE, fft_data |-> None, fft_dims |-> None]

\* the attributes of the ArrayView object (src/src/arrayview.py) when
\* __init__(im) with the default arguments x = -1, y = -2 returns or raises
ArrayView_init(shape) ==
    LET ndim == Cardinality(DOMAIN shape)
    IN  IF ndim < MinNdim
        THEN [raised |-> "TypeError", attrs |-> {}, ndim |-> Unset, slices |-> Unset,
              x |-> Unset, y |-> Unset, d |-> Unset]
        ELSE [raised |-> None, attrs |-> {"ndim", "slices", "x", "y", "d"},
              ndim |-> ndim,
              slices |-> [i \in DOMAIN shape |-> shape[i] \div 2],
              x |-> (-1) % ndim, y |-> (-2) % ndim,
              d |-> IF ndim - 3 > 0 THEN ndim - 3 ELSE 0]

\* self.z and self.c when the argument is None: no axis
NoAxis == -1

\* an optional axis argument of ArrayView: None, or the integer n
Nothing == [given |-> FALSE, v |-> 0]
Some(n) == [given |-> TRUE, v |-> n]

\* the attributes of the ArrayView object when __init__(im, x, y, z, c)
\* returns, for an array with MinNdim or more dimensions; entered_slice is
\* assigned by the first digit key only
ArrayView_new(shape, x, y, z, c) ==
    LET ndim == Cardinality(DOMAIN shape)
    IN  [shape |-> shape,
         ndim |-> ndim,
         slices |-> [i \in DOMAIN shape |-> shape[i] \div 2],
         flips |-> [i \in DOMAIN shape |-> 1],
         x |-> x % ndim,
         y |-> y % ndim,
         z |-> IF z.given THEN z.v % ndim ELSE NoAxis,
         c |-> IF c.given THEN c.v % ndim ELSE NoAxis,
         d |-> Max({ndim - 3, 0}),
         entering_slice |-> FALSE,
         entered_slice |-> Unset]

\* the attributes of the NDArrayViewer object when __init__(array) returns
\* or raises, for an array of the given shape; canvas_ok: VisPy can create
\* a canvas with one of its configurations
NDArrayViewer_init(shape, complex, canvas_ok) ==
    IF Cardinality(DOMAIN shape) < MinNdim
    THEN [raised |-> "ValueError", attrs |-> AttrsBeforeNdimTest,
          dims |-> Unset, scroll_dim_idx |-> Unset, is_playing |-> Unset,
          loop_checked |-> Unset, is_complex_data |-> complex,
          complex_view_mode |-> "magnitude", data |-> Unset,
          is_fft_view |-> Unset, fft_data |-> Unset, fft_dims |-> Unset]
    ELSE [raised |-> IF canvas_ok THEN None ELSE "CanvasError",
          attrs |-> IF canvas_ok THEN AttrsAll ELSE AttrsBeforeCanvas,
          dims |-> assign_initial_roles(shape),
          scroll_dim_idx |-> update_scroll_dim_index(assign_initial_roles(shape)),
          is_playing |-> FALSE,
          loop_checked |-> IF canvas_ok THEN TRUE ELSE Unset,
          is_complex_data |-> complex,
          complex_view_mode |-> "magnitude",
          data |-> IF complex THEN "magnitude" ELSE "plain",
          is_fft_view |-> FALSE, fft_data |-> None, fft_dims |-> None]

\* arrayshow_matplotlib(data): None when the figure was shown, or the
\* exception; matplotlib_ok: matplotlib can be imported and can show a figure
arrayshow_matplotlib(shape, matplotlib_ok) ==
    IF ~matplotlib_ok THEN "ImportError"
    ELSE IF Cardinality(DOMAIN shape) < MinNdim THEN "ValueError"
    ELSE None

\* arrayshow(array, fallback_matplotlib=...): the viewer object it built,
\* the viewer that is shown ("vispy", "matplotlib" or "none") and the
\* exception that leaves the call
arrayshow(shape, complex, fallback_matplotlib, is_remote, canvas_ok, matplotlib_ok) ==
    LET viewer == NDArrayViewer_init(shape, complex, canvas_ok)
        e2 == arrayshow_matplotlib(shape, matplotlib_ok)
    IN  IF viewer.raised = None
        THEN [viewer |-> viewer, shown |-> "vispy", raised |-> None]
        ELSE IF fallback_matplotlib /\ is_remote
        THEN [viewer |-> viewer,
              shown |-> IF e2 = None THEN "matplotlib" ELSE "none",
              raised |-> e2]
        ELSE [viewer |-> viewer, shown |-> "none", raised |-> viewer.raised]

\* the variables hold the attributes of viewer
StateIs(viewer) ==
    /\ dims = viewer.dims
    /\ scroll_dim_idx = viewer.scroll_dim_idx
    /\ is_playing = viewer.is_playing
    /\ loop_checked = viewer.loop_checked
    /\ is_complex_data = viewer.is_complex_data
    /\ complex_view_mode = viewer.complex_view_mode
    /\ data = viewer.data
    /\ is_fft_view = viewer.is_fft_view
    /\ fft_data = viewer.fft_data
    /\ fft_dims = viewer.fft_dims

\* the call arrayshow(array, fallback_matplotlib=...) in an environment
\* (is_remote, canvas_ok, matplotlib_ok) and its outcome
Launched(shape, complex, fallback_matplotlib, is_remote, canvas_ok, matplotlib_ok) ==
    LET r == arrayshow(shape, complex, fallback_matplotlib, is_remote, canvas_ok,
                       matplotlib_ok)
    IN  /\ StateIs(r.viewer)
        /\ launch = [shape |-> shape, complex |-> complex,
                     fallback_matplotlib |-> fallback_matplotlib,
                     is_remote |-> is_remote, canvas_ok |-> canvas_ok,
                     matplotlib_ok |-> matplotlib_ok,
                     attrs |-> r.viewer.attrs,
                     shown |-> r.shown, raised |-> r.raised]
        /\ arrayview = Unset

\* arrayshow(array) with the default arguments on a local display where
\* VisPy works
InitOn(shapes, maxComplexNdim) ==
    \E shape \in shapes :
        \E complex \in IF Cardinality(DOMAIN shape) <= maxComplexNdim
                       THEN BOOLEAN ELSE {FALSE} :
            Launched(shape, complex, TRUE, FALSE, TRUE, TRUE)

Init == InitOn(ShapesUpTo(MaxNdim, MaxVolume), MaxComplexNdim)

\* arrays with fewer dimensions and more elements, complex ones with MinNdim
\* dimensions only
InitImage == InitOn(ShapesUpTo(MaxImageNdim, MaxImageVolume), MinNdim)

\* the fewest dimensions an array with a grid dimension has: two view axes
\* and the grid dimension
GridNdim == MinNdim + 1

\* arrays of at most GridNdim dimensions with up to MaxGridSize elements,
\* complex ones with MinNdim dimensions only
InitGrid == InitOn(ShapesUpTo(GridNdim, MaxGridSize), MinNdim)

\* every call arrayshow(array, fallback_matplotlib=...) on an array of at
\* most GridNdim dimensions (fewer than MinNdim included) with up to
\* MaxVolume elements, in every environment
InitLaunch ==
    \E shape \in ShortShapes(MaxVolume) \cup ShapesUpTo(GridNdim, MaxVolume) :
        \E complex \in BOOLEAN, fallback_matplotlib \in BOOLEAN, is_remote \in BOOLEAN,
           canvas_ok \in BOOLEAN, matplotlib_ok \in BOOLEAN :
            Launched(shape, complex, fallback_matplotlib, is_remote, canvas_ok,
                     matplotlib_ok)

\* arrays for the role operations, which read no size: arrays of up to
\* MaxNdim dimensions of one element each, where only the roles vary, and
\* arrays of at most GridNdim dimensions with up to MaxVolume elements;
\* complex ones with at most GridNdim dimensions
InitRoles ==
    InitOn(ShapesUpTo(MaxNdim, 1) \cup ShapesUpTo(GridNdim, MaxVolume), GridNdim)

-----------------------------------------------------------------------------
(* Event handlers.  Each handler is a function from the viewer's state and  *)
(* the event's input to the state it returns in; its action applies it.    *)

\* the viewer's state as one record
St ==
    [dims |-> dims, scroll_dim_idx |-> scroll_dim_idx, is_playing |-> is_playing,
     loop_checked |-> loop_checked, is_complex_data |-> is_complex_data,
     complex_view_mode |-> complex_view_mode, data |-> data,
     is_fft_view |-> is_fft_view, fft_data |-> fft_data, fft_dims |-> fft_dims]

\* the handler returns in state nst
Returns(nst) ==
    /\ dims' = nst.dims
    /\ scroll_dim_idx' = nst.scroll_dim_idx
    /\ is_playing' = nst.is_playing
    /\ loop_checked' = nst.loop_checked
    /\ is_complex_data' = nst.is_complex_data
    /\ complex_view_mode' = nst.complex_view_mode
    /\ data' = nst.data
    /\ is_fft_view' = nst.is_fft_view
    /\ fft_data' = nst.fft_data
    /\ fft_dims' = nst.fft_dims
    /\ launch' = launch
    /\ arrayview' = arrayview

Fire(nst) == \E r \in {nst} : Returns(r)

Axes == DOMAIN dims

\* st after "if self.is_playing: self._toggle_playback()" and a role operation
\* that returned rs
StoppedWithRoles(st, rs) ==
    [st EXCEPT !.is_playing = stop_if_playing(st.is_playing, st.scroll_dim_idx),
               !.dims = rs.dims,
               !.scroll_dim_idx = rs.scroll_dim_idx]

\* click on [X] (axis 0) or [Y] (axis 1) of dimension d
ViewButtonStep(st, d, axis) ==
    StoppedWithRoles(st, set_view_dimension_from_button(st.dims, d, axis))

\* click on [G] of dimension d
GridButtonStep(st, d) ==
    StoppedWithRoles(st, toggle_grid_dimension(st.dims, st.scroll_dim_idx, d))

\* key v and the text typed into the prompt
KeyVStep(st, inp) ==
    StoppedWithRoles(st, prompt_for_view_dims(st.dims, st.scroll_dim_idx, inp))

\* keys j and k
KeyStepStep(st, key) ==
    StoppedWithRoles(st, RoleState(step_index(st.dims, st.scroll_dim_idx, key),
                                   st.scroll_dim_idx))

\* keys l ("next") and h ("prev")
KeyCycleStep(st, direction) ==
    StoppedWithRoles(st, change_scroll_dimension_by_cycle(st.dims, st.scroll_dim_idx,
                                                          direction))

KeyGStep(st) == StoppedWithRoles(st, key_g(st.dims, st.scroll_dim_idx))

\* keys b and x: colorbar and crosshair, after the playback stop
KeyOtherStep(st) == StoppedWithRoles(st, RoleState(st.dims, st.scroll_dim_idx))

SliderPressedStep(st, d) ==
    StoppedWithRoles(st, on_slider_pressed(st.dims, st.scroll_dim_idx, d))

SliderMovedStep(st, d, value) ==
    StoppedWithRoles(st, RoleState(on_slider_moved(st.dims, d, value),
                                   st.scroll_dim_idx))

PlayButtonStep(st) ==
    [st EXCEPT !.is_playing = toggle_playback(st.is_playing, st.scroll_dim_idx)]

LoopCheckboxStep(st) == [st EXCEPT !.loop_checked = ~st.loop_checked]

\* faulty variant: setValue is called with the signals open, so a slider
\* whose value changes emits valueChanged and _on_slider_moved runs
update_ui_state_signals_open(shown, st) ==
    LET changed == {i \in DOMAIN st.dims : shown[i].index # st.dims[i].index}
    IN  IF changed = {} THEN st
        ELSE SliderMovedStep(st, Min(changed), st.dims[Min(changed)].index)

\* the slider refresh of _update_ui_state: the sliders show the indices of
\* the role table shown and are set to the ones of st between
\* blockSignals(True) and blockSignals(False), so no handler runs
update_ui_state(shown, st) == st

\* timeout of the QTimer
TickStep(st) ==
    LET r == advance_slice(st.dims, st.scroll_dim_idx, st.is_playing, st.loop_checked)
    IN  update_ui_state(st.dims, [st EXCEPT !.dims = r.dims, !.is_playing = r.is_playing])

\* _on_complex_view_changed
ComplexComboStep(st, text) ==
    [st EXCEPT !.complex_view_mode = mode_map(text),
               !.data = get_complex_view_data(st.is_complex_data, mode_map(text),
                                              st.data)]

\* key c: _cycle_complex_view after the playback stop
KeyCStep(st) ==
    LET stopped == [st EXCEPT !.is_playing =
                        stop_if_playing(st.is_playing, st.scroll_dim_idx)]
    IN  IF ~st.is_complex_data THEN stopped
        ELSE ComplexComboStep([stopped EXCEPT !.complex_view_mode =
                                   cycle_complex_view(st.complex_view_mode)],
                              mode_names[CHOOSE k \in 1 .. Len(modes) :
                                  modes[k] = cycle_complex_view(st.complex_view_mode)])

\* faulty variant: switching the FFT view builds the role table anew
KeyFStep_initial_roles(st, inp) ==
    LET fs == toggle_fft_view(FftState(st.is_fft_view, st.fft_data, st.fft_dims),
                              Ndim(st.dims), st.data, inp)
        nd == assign_initial_roles([i \in DOMAIN st.dims |-> st.dims[i].size])
    IN  [st EXCEPT !.is_playing = stop_if_playing(st.is_playing, st.scroll_dim_idx),
                   !.dims = IF fs.is_fft_view # st.is_fft_view THEN nd ELSE st.dims,
                   !.scroll_dim_idx = IF fs.is_fft_view # st.is_fft_view
                                      THEN update_scroll_dim_index(nd)
                                      ELSE st.scroll_dim_idx,
                   !.is_fft_view = fs.is_fft_view,
                   !.fft_data = fs.fft_data,
                   !.fft_dims = fs.fft_dims]

\* key f: _toggle_fft_view after the playback stop
KeyFStep(st, inp) ==
    LET fs == toggle_fft_view(FftState(st.is_fft_view, st.fft_data, st.fft_dims),
                              Ndim(st.dims), st.data, inp)
    IN  [st EXCEPT !.is_playing = stop_if_playing(st.is_playing, st.scroll_dim_idx),
                   !.is_fft_view = fs.is_fft_view,
                   !.fft_data = fs.fft_data,
                   !.fft_dims = fs.fft_dims]

ViewButton(d, axis) == Fire(ViewButtonStep(St, d, axis))

GridButton(d) == Fire(GridButtonStep(St, d))

KeyV(inp) == Fire(KeyVStep(St, inp))

KeyStep(key) == Fire(KeyStepStep(St, key))

KeyCycle(direction) == Fire(KeyCycleStep(St, direction))

KeyG == Fire(KeyGStep(St))

KeyOther == Fire(KeyOtherStep(St))

SliderPressed(d) == Fire(SliderPressedStep(St, d))

\* valueChanged of slider d: the slider shows dims[d].index, and the signal
\* carries a different value of its range
SliderMoved(d, value) ==
    /\ value # dims[d].index
    /\ Fire(SliderMovedStep(St, d, value))

PlayButton == Fire(PlayButtonStep(St))

LoopCheckbox == Fire(LoopCheckboxStep(St))

\* the QTimer runs while is_playing
Tick ==
    /\ is_playing
    /\ Fire(TickStep(St))

\* the complex-view combo box, shown for complex input, changes to text
ComplexCombo(text) ==
    /\ is_complex_data
    /\ mode_map(text) # complex_view_mode
    /\ Fire(ComplexComboStep(St, text))

KeyC == Fire(KeyCStep(St))

\* no prompt is shown when the FFT view is on
KeyF(inp) ==
    /\ is_fft_view => inp = Cancel
    /\ Fire(KeyFStep(St, inp))

Next ==
    \/ \E d \in Axes, axis \in {0, 1} : ViewButton(d, axis)
    \/ \E d \in Axes : GridButton(d)
    \/ \E inp \in ViewPromptInputs(Ndim(dims)) : KeyV(inp)
    \/ \E key \in {"j", "k"} : KeyStep(key)
    \/ \E direction \in {"next", "prev"} : KeyCycle(direction)
    \/ KeyG
    \/ KeyOther
    \/ \E d \in Axes : SliderPressed(d)
    \/ \E d \in Axes : \E value \in 0 .. dims[d].size - 1 : SliderMoved(d, value)
    \/ PlayButton
    \/ LoopCheckbox
    \/ Tick
    \/ \E text \in {"Magnitude", "Phase", "Real", "Imaginary"} : ComplexCombo(text)
    \/ KeyC
    \/ \E inp \in FftPromptInputs(Ndim(dims)) : KeyF(inp)

Spec == Init /\ [][Next]_vars

SpecImage == InitImage /\ [][Next]_vars

SpecGrid == InitGrid /\ [][Next]_vars

SpecRoles == InitRoles /\ [][Next]_vars

\* real arrays of at most GridNdim dimensions with up to MaxGridSize elements
InitPlayback == InitOn(ShapesUpTo(GridNdim, MaxGridSize), 0)

\* a playback session: with playback off the user moves sliders, checks or
\* unchecks Loop and presses Play; while playback runs the only events are
\* the timeouts of the QTimer
NextPlayback ==
    \/ /\ ~is_playing
       /\ \/ \E d \in Axes : \E value \in 0 .. dims[d].size - 1 : SliderMoved(d, value)
          \/ LoopCheckbox
          \/ PlayButton
    \/ Tick

\* the QTimer started by _toggle_playback fires again and again while it runs
SpecPlayback == InitPlayback /\ [][NextPlayback]_vars /\ WF_vars(Tick)

\* the events of Next reach a viewer only while the VisPy window is shown
NextLaunch == launch.shown = "vispy" /\ Next

SpecLaunch == InitLaunch /\ [][NextLaunch]_vars

-----------------------------------------------------------------------------
(* Properties of the role table *)

CountRole(r) == Cardinality({i \in Axes : dims[i].role = r})
XDim == FirstWithRole(dims, "view_x", -1)
YDim == FirstWithRole(dims, "view_y", -1)
GridDim == FirstWithRole(dims, "view_grid", -1)
NonViewDims == {i \in Axes : ~IsView(dims[i].role)}

\* C1: in every reachable state exactly one dimension has role view_x,
\* exactly one has role view_y, and the two are different dimensions.
C1_OneViewXOneViewY ==
    /\ CountRole("view_x") = 1
    /\ CountRole("view_y") = 1
    /\ XDim \in Axes /\ YDim \in Axes /\ XDim # YDim

\* the view axes have been moved off dimensions 0 and 1, in reverse order,
\* and a grid dimension was chosen afterwards
C1_Witness ==
    /\ XDim > YDim /\ YDim >= 2
    /\ GridDim # -1

\* C2: in every reachable state at most one dimension has role scroll, and
\* exactly one has it whenever some dimension is neither view_x, view_y nor
\* view_grid.
C2_OneScroll ==
    /\ CountRole("scroll") <= 1
    /\ NonViewDims # {} => CountRole("scroll") = 1

\* the user has moved the scroll role away from the lowest non-view
\* dimension, which is fixed now
C2_Witness ==
    /\ Cardinality(NonViewDims) >= 2
    /\ CountRole("scroll") = 1
    /\ dims[Min(NonViewDims)].role = "fixed"

\* C3: in every reachable state at most one dimension has role view_grid.
C3_AtMostOneGrid == CountRole("view_grid") <= 1

\* a grid dimension exists next to two more dimensions the grid role could
\* have been given to
C3_Witness ==
    /\ CountRole("view_grid") = 1
    /\ Cardinality(NonViewDims) >= 2
    /\ GridDim > Min(NonViewDims)

\* C4: in every reachable state every dimension has 0 <= index < size.
C4_IndexInRange ==
    \A i \in Axes : 0 <= dims[i].index /\ dims[i].index < dims[i].size

\* playback runs on a scroll dimension of more than one element that stands
\* at its last index, and another dimension was moved off its initial index
C4_Witness ==
    /\ is_playing /\ scroll_dim_idx # -1
    /\ dims[scroll_dim_idx].size >= 2
    /\ dims[scroll_dim_idx].index = dims[scroll_dim_idx].size - 1
    /\ ~loop_checked

\* a dimension of two elements stands at index 0, below its initial index 1
C4_WitnessLow ==
    \E i \in Axes : dims[i].size = 2 /\ dims[i].index = 0

\* the role table assign_initial_roles builds: view_x, view_y, scroll on
\* dimension 2 if there is one, fixed after it, every index at size // 2
InitialRoles(ds) ==
    \A i \in DOMAIN ds :
        /\ ds[i].role = (IF i = 0 THEN "view_x"
                         ELSE IF i = 1 THEN "view_y"
                         ELSE IF i = 2 THEN "scroll"
                         ELSE "fixed")
        /\ ds[i].index * 2 <= ds[i].size
        /\ ds[i].size < ds[i].index * 2 + 2

Shape8853 == [i \in 0 .. 3 |-> <<8, 8, 5, 3>>[i + 1]]

\* C5: the initial state of every viewer has dim 0 = view_x, dim 1 = view_y,
\* dim 2 = scroll when ndim > 2 and no scroll dimension when ndim = 2, every
\* further dimension fixed and every index = size // 2; shape (8, 8, 5, 3)
\* gives roles [view_x, view_y, scroll, fixed] and indices [4, 4, 2, 1].
\* The first conjunct is about the initial states; the sizes, which it
\* reads, are those of the constructed array for the whole session.
C5_InitialRoles ==
    /\ /\ InitialRoles(dims)
       /\ Ndim(dims) = 2 => CountRole("scroll") = 0 /\ scroll_dim_idx = -1
       /\ Ndim(dims) > 2 => scroll_dim_idx = 2
       /\ [i \in 0 .. 3 |-> assign_initial_roles(Shape8853)[i].role]
             = [i \in 0 .. 3 |-> <<"view_x", "view_y", "scroll", "fixed">>[i + 1]]
       /\ [i \in 0 .. 3 |-> assign_initial_roles(Shape8853)[i].index]
             = [i \in 0 .. 3 |-> <<4, 4, 2, 1>>[i + 1]]
    /\ [][\A i \in Axes : dims'[i].size = dims[i].size]_vars

\* the initial state of a viewer of four or more dimensions, one of them of
\* two elements
C5_Witness ==
    /\ Ndim(dims) >= 4
    /\ InitialRoles(dims)
    /\ \E i \in Axes : dims[i].size = 2 /\ dims[i].index = 1
    /\ ~is_playing /\ ~is_fft_view

-----------------------------------------------------------------------------
(* Properties of the displayed image *)

DisplayImage == get_display_image(dims)

\* <<rows, cols>> of the tiling: 1 x 1 without a grid dimension
TileLayout ==
    IF GridDim = -1 THEN <<1, 1>> ELSE calculate_grid_layout(dims[GridDim].size)

\* C6 as stated: the displayed image has rows * size(view_y) rows and
\* cols * size(view_x) columns (rows = cols = 1 without a grid dimension).
C6_Original_RowsFollowY ==
    /\ DisplayImage.h = TileLayout[1] * dims[YDim].size
    /\ DisplayImage.w = TileLayout[2] * dims[XDim].size

\* C6 amended: the rows of the displayed image follow view_x and its columns
\* follow view_y: it has rows * size(view_x) rows and cols * size(view_y)
\* columns (rows = cols = 1 without a grid dimension), and the pixel in row
\* r and column c shows an element at position r mod size(view_x) along
\* view_x and c mod size(view_y) along view_y.
C6_RowsFollowX ==
    /\ DisplayImage.h = TileLayout[1] * dims[XDim].size
    /\ DisplayImage.w = TileLayout[2] * dims[YDim].size
    /\ \A p \in DOMAIN DisplayImage.px :
          /\ DisplayImage.px[p][XDim] = p[1] % dims[XDim].size
          /\ DisplayImage.px[p][YDim] = p[2] % dims[YDim].size

\* a mosaic of several tiles whose view axes differ in size, view_y being
\* the earlier axis of the array, so that every tile is transposed
C6_Witness ==
    /\ GridDim # -1 /\ dims[GridDim].size >= 2
    /\ dims[XDim].size # dims[YDim].size
    /\ YDim < XDim

-----------------------------------------------------------------------------
(* Properties of toggle_grid: GridButtonStep(St, d) is the state in which  *)
(* _toggle_grid_dimension(d) returns when it is called in the current one   *)

\* C7 as stated: toggle_grid(d) on a dimension d that has role view_grid
\* leaves d with role scroll.
C7_GridOffBecomesScroll ==
    \A d \in Axes :
        dims[d].role = "view_grid" => GridButtonStep(St, d).dims[d].role = "scroll"

\* C8 as stated: toggle_grid(d) on a dimension d that has role fixed leaves
\* the scroll role on the dimension that held it.
C8_GridOnKeepsScroll ==
    \A d \in Axes :
        dims[d].role = "fixed" =>
            /\ GridButtonStep(St, d).scroll_dim_idx = scroll_dim_idx
            /\ \A i \in Axes :
                  dims[i].role = "scroll" => GridButtonStep(St, d).dims[i].role = "scroll"

\* C9: toggle_grid(d) on a dimension d that has role scroll or fixed leaves d
\* as the only dimension with role view_grid.
C9_GridOnIsOnlyGrid ==
    \A d \in Axes :
        dims[d].role \in {"scroll", "fixed"} =>
            LET after == GridButtonStep(St, d).dims
            IN  \A i \in Axes : after[i].role = "view_grid" <=> i = d

\* another dimension holds view_grid while a scroll and a fixed dimension
\* can be toggled, and playback runs
C9_Witness ==
    /\ GridDim # -1
    /\ \E i \in Axes : \E j \in Axes : dims[i].role = "scroll" /\ dims[j].role = "fixed"
    /\ is_playing

\* C10: toggle_grid(d) on a dimension d that has role view_x or view_y
\* changes no role, no index and not the scroll dimension.
C10_GridOnViewAxisNoOp ==
    \A d \in Axes :
        dims[d].role \in {"view_x", "view_y"} =>
            LET after == GridButtonStep(St, d)
            IN  /\ after.dims = dims
                /\ after.scroll_dim_idx = scroll_dim_idx

\* toggle_grid of a view axis is called with a grid dimension, a scroll
\* dimension chosen by the user and an index off its initial value in place
C10_Witness ==
    /\ GridDim # -1
    /\ scroll_dim_idx # -1 /\ scroll_dim_idx > Min(NonViewDims)
    /\ \E i \in Axes : dims[i].size = 2 /\ dims[i].index = 0

-----------------------------------------------------------------------------
(* Properties of set_view_axes: KeyVStep(St, SetViewAxes(x, y)) is the      *)
(* state in which the viewer is after key v and the answer "x y", and       *)
(* ViewButtonStep(St, d, axis) the one after a click on [X] or [Y] of d     *)

\* the answer "x y" to the view-dimension prompt
SetViewAxes(x, y) == Text(<<Tok(x), Tok(y)>>)

\* C11 as stated: set_view_axes(x, y) leaves the view_grid role on a
\* dimension that holds it and is selected neither as x nor as y.
C11_GridSurvivesSetViewAxes ==
    \A x \in Axes : \A y \in Axes \ {x} :
        \A g \in Axes \ {x, y} :
            dims[g].role = "view_grid" =>
                KeyVStep(St, SetViewAxes(x, y)).dims[g].role = "view_grid"

\* ViewButtonStep(St, d, axis) requests the current view pair in reverse
ReversePair(d, axis) == (axis = 0 /\ d = YDim) \/ (axis = 1 /\ d = XDim)

\* view_x and view_y are each held by exactly one dimension of ds
OneOfEachViewAxis(ds) ==
    /\ Cardinality({i \in DOMAIN ds : ds[i].role = "view_x"}) = 1
    /\ Cardinality({i \in DOMAIN ds : ds[i].role = "view_y"}) = 1

\* the role tables the loop of _reassign_all_roles(YDim, XDim) passes
\* through, the one it starts from and the one it ends with included
SwapLoopTables == {reassign_all_roles_loop(dims, YDim, XDim, k) : k \in 0 .. Ndim(dims)}

\* C12 as stated: a click on [X] of the view_y dimension or on [Y] of the
\* view_x dimension makes the old view_y dimension view_x and the old
\* view_x dimension view_y, and view_x and view_y are each held by exactly
\* one dimension in the final role table and in every role table the call
\* passes through.
C12_Original_SwapWithoutTransient ==
    \A d \in Axes : \A axis \in {0, 1} :
        ReversePair(d, axis) =>
            /\ ViewButtonStep(St, d, axis).dims[YDim].role = "view_x"
            /\ ViewButtonStep(St, d, axis).dims[XDim].role = "view_y"
            /\ OneOfEachViewAxis(ViewButtonStep(St, d, axis).dims)
            /\ \A t \in SwapLoopTables : OneOfEachViewAxis(t)

\* C12 amended: a click on [X] of the view_y dimension or on [Y] of the
\* view_x dimension makes the old view_y dimension view_x and the old
\* view_x dimension view_y, and view_x and view_y are each held by exactly
\* one dimension when the call returns.  Inside the call the roles are
\* written one dimension at a time in ascending order: from the write of
\* the lower of the two axes until the write of the higher one, one of
\* view_x and view_y is held by both axes and the other by no dimension.
C12_SwapOnReturn ==
    LET x == XDim
        y == YDim
        lower == Min({x, y})
        higher == Max({x, y})
    IN  \A axis \in {0, 1} :
            LET d == IF axis = 0 THEN y ELSE x
                after == ViewButtonStep(St, d, axis).dims
            IN  /\ ReversePair(d, axis)
                /\ after[y].role = "view_x"
                /\ after[x].role = "view_y"
                /\ OneOfEachViewAxis(after)
                /\ \A k \in 0 .. Ndim(dims) :
                      OneOfEachViewAxis(reassign_all_roles_loop(dims, y, x, k))
                          <=> (k <= lower \/ k > higher)

\* the pair is reversed while playback runs and a third dimension lies
\* between the two view axes, view_x being the higher one
C12_Witness ==
    /\ is_playing
    /\ XDim > YDim + 1
    /\ GridDim = -1

\* the transpose decision render takes with the role table ds
TransposeDecision(ds) ==
    needs_transpose(FirstWithRole(ds, "view_x", -1), FirstWithRole(ds, "view_y", -1))

\* C13: with view_x = p and view_y = q, set_view_axes(q, p) followed by
\* set_view_axes(p, q) ends with view_x = p and view_y = q as the only view
\* axes and with the transpose decision of render as it was before the two
\* calls; between the two calls view_x = q, view_y = p and the transpose
\* decision is the opposite one.
C13_ViewAxesRoundTrip ==
    LET p == XDim
        q == YDim
        between == KeyVStep(St, SetViewAxes(q, p))
        back == KeyVStep(between, SetViewAxes(p, q)).dims
    IN  /\ FirstWithRole(between.dims, "view_x", -1) = q
        /\ FirstWithRole(between.dims, "view_y", -1) = p
        /\ TransposeDecision(between.dims) = ~TransposeDecision(dims)
        /\ \A i \in Axes :
              /\ back[i].role = "view_x" <=> i = p
              /\ back[i].role = "view_y" <=> i = q
        /\ TransposeDecision(back) = TransposeDecision(dims)

\* the round trip starts from a transposed view on two axes other than the
\* initial ones, with a grid dimension below them
C13_Witness ==
    /\ TransposeDecision(dims)
    /\ GridDim # -1 /\ GridDim < YDim
    /\ XDim = Ndim(dims) - 1

-----------------------------------------------------------------------------
(* Properties of the scroll dimension and the indices *)

\* the state in which _set_scroll_dimension(d) returns when it is called in
\* the current one
SetScrollDimensionStep(st, d) ==
    StoppedWithRoles(st, set_scroll_dimension(st.dims, st.scroll_dim_idx, d))

\* ds and the current role table have the same index in every dimension
SameIndices(ds) == \A i \in Axes : ds[i].index = dims[i].index

\* C14: set_scroll_dimension(d) on a dimension d with role view_x, view_y or
\* view_grid changes no role and no index; on any other d it leaves d with
\* role scroll, turns the previous scroll dimension, if it is not d, into
\* fixed, and changes no other role (and no index).
C14_SetScrollDimension ==
    \A d \in Axes :
        LET after == SetScrollDimensionStep(St, d)
        IN  /\ SameIndices(after.dims)
            /\ IsView(dims[d].role) =>
                  /\ after.dims = dims
                  /\ after.scroll_dim_idx = scroll_dim_idx
            /\ ~IsView(dims[d].role) =>
                  /\ after.scroll_dim_idx = d
                  /\ \A i \in Axes :
                        after.dims[i].role =
                            IF i = d THEN "scroll"
                            ELSE IF dims[i].role = "scroll" THEN "fixed"
                            ELSE dims[i].role

\* set_scroll_dimension can be called on a grid dimension, on the scroll
\* dimension itself and on a fixed dimension below the scroll dimension,
\* while playback runs
C14_Witness ==
    /\ GridDim # -1
    /\ CountRole("fixed") >= 1
    /\ scroll_dim_idx > Min(NonViewDims)
    /\ is_playing

\* the dimension cycle_scroll_dimension(direction) moves the scroll role to:
\* the nearest non-view dimension above (next) or below (prev) the scroll
\* dimension, and from the last (first) one around to the first (last)
CycleTarget(direction) ==
    LET above == {i \in NonViewDims : i > scroll_dim_idx}
        below == {i \in NonViewDims : i < scroll_dim_idx}
    IN  IF direction = "next"
        THEN (IF above # {} THEN Min(above) ELSE Min(NonViewDims))
        ELSE (IF below # {} THEN Max(below) ELSE Max(NonViewDims))

\* C15: with fewer than two dimensions that are not view_x, view_y or
\* view_grid, cycle_scroll_dimension(next | prev) changes no role, no index
\* and not the scroll dimension.  Otherwise it moves the scroll role to the
\* next / previous of these dimensions in ascending index order, wrapping
\* around at the ends: that dimension becomes scroll, the old scroll
\* dimension fixed, no other role and no index changes, and no dimension
\* with a view role ever receives scroll.
C15_CycleScrollDimension ==
    \A direction \in {"next", "prev"} :
        LET after == KeyCycleStep(St, direction)
            target == CycleTarget(direction)
        IN  /\ SameIndices(after.dims)
            /\ Cardinality(NonViewDims) < 2 =>
                  /\ after.dims = dims
                  /\ after.scroll_dim_idx = scroll_dim_idx
            /\ Cardinality(NonViewDims) >= 2 =>
                  /\ after.scroll_dim_idx = target
                  /\ \A i \in Axes :
                        after.dims[i].role =
                            IF i = target THEN "scroll"
                            ELSE IF i = scroll_dim_idx THEN "fixed"
                            ELSE dims[i].role
                  /\ ~IsView(dims[target].role)

\* three dimensions can be cycled through, the scroll role is on the last
\* of them (next wraps around) and a view axis lies between them
C15_Witness ==
    /\ Cardinality(NonViewDims) >= 3
    /\ scroll_dim_idx = Max(NonViewDims)
    /\ \E v \in Axes : IsView(dims[v].role) /\ Min(NonViewDims) < v /\ v < scroll_dim_idx

\* the index of the scroll dimension after key j or k
SteppedIndex(key) == KeyStepStep(St, key).dims[scroll_dim_idx].index

\* C16: with a scroll dimension at index n, key j leaves it at size - 1 when
\* n = size - 1 and at n + 1 otherwise, and key k leaves it at 0 when n = 0
\* and at n - 1 otherwise.
C16_StepClamps ==
    scroll_dim_idx # -1 =>
        /\ SteppedIndex("j") =
              IF dims[scroll_dim_idx].index = dims[scroll_dim_idx].size - 1
              THEN dims[scroll_dim_idx].size - 1
              ELSE dims[scroll_dim_idx].index + 1
        /\ SteppedIndex("k") =
              IF dims[scroll_dim_idx].index = 0 THEN 0
              ELSE dims[scroll_dim_idx].index - 1

\* the scroll dimension has more than one element and stands at index 0,
\* where k is clamped and j is not, and it is not the initial scroll
\* dimension
C16_Witness ==
    /\ scroll_dim_idx > 2
    /\ dims[scroll_dim_idx].size >= 2
    /\ dims[scroll_dim_idx].index = 0

\* C17: a tick of the playback timer finds a scroll dimension; below the last
\* index it adds 1 to the index of that dimension and playback goes on; at
\* the last index it sets the index to 0 and playback goes on when loop is
\* checked, and it leaves the index at size - 1 and stops playback when loop
\* is not checked.  It changes no role, not the scroll dimension and no index
\* of another dimension.
C17_TickAdvances ==
    is_playing =>
        LET after == TickStep(St)
            n == dims[scroll_dim_idx].index
            last == dims[scroll_dim_idx].size - 1
        IN  /\ scroll_dim_idx # -1
            /\ after.scroll_dim_idx = scroll_dim_idx
            /\ \A i \in Axes :
                  /\ after.dims[i].role = dims[i].role
                  /\ i # scroll_dim_idx => after.dims[i].index = dims[i].index
            /\ n < last =>
                  after.dims[scroll_dim_idx].index = n + 1 /\ after.is_playing
            /\ n = last /\ loop_checked =>
                  after.dims[scroll_dim_idx].index = 0 /\ after.is_playing
            /\ n = last /\ ~loop_checked =>
                  after.dims[scroll_dim_idx].index = last /\ ~after.is_playing

\* playback without loop has reached the last index of a scroll dimension
\* of more than one element, next to a grid dimension
C17_Witness ==
    /\ is_playing /\ ~loop_checked
    /\ scroll_dim_idx # -1
    /\ dims[scroll_dim_idx].size >= 2
    /\ dims[scroll_dim_idx].index = dims[scroll_dim_idx].size - 1
    /\ GridDim # -1

-----------------------------------------------------------------------------
(* Properties of the mosaic *)

\* rows is the largest divisor of n that is <= sqrt(n), and cols = n / rows
LargestDivisorLayout(n, rows, cols) ==
    /\ rows \in 1 .. n
    /\ n % rows = 0 /\ rows * rows <= n
    /\ \A r \in 1 .. n : (n % r = 0 /\ r * r <= n) => r <= rows
    /\ cols = n \div rows
    /\ rows * cols = n
    /\ rows <= cols

\* C18: for the size n >= 1 of every dimension that can be made the grid
\* dimension, calculate_grid_layout(n) ends and gives rows = the largest
\* divisor of n that is <= sqrt(n) and cols = n / rows, with rows * cols = n
\* and rows <= cols; it gives (3, 4) for n = 12 and (1, 7) for n = 7.
C18_LargestDivisorLayout ==
    /\ \A i \in Axes :
          LargestDivisorLayout(dims[i].size,
                               calculate_grid_layout(dims[i].size)[1],
                               calculate_grid_layout(dims[i].size)[2])
    /\ GridDim # -1 =>
          LargestDivisorLayout(dims[GridDim].size, TileLayout[1], TileLayout[2])
    /\ calculate_grid_layout(12) = <<3, 4>>
    /\ calculate_grid_layout(7) = <<1, 7>>

\* a grid dimension of 12 elements is shown as a mosaic
C18_Witness ==
    /\ GridDim # -1
    /\ dims[GridDim].size = 12
    /\ TileLayout = <<3, 4>>

\* the element of the array that row a and column b of tile i show: the
\* grid dimension at i, view_x at a, view_y at b, every other dimension at
\* its current index
TileElement(i, a, b) ==
    [k \in Axes |-> IF k = GridDim THEN i
                    ELSE IF k = XDim THEN a
                    ELSE IF k = YDim THEN b
                    ELSE dims[k].index]

\* the pixels [r*h:(r+1)*h, c*w:(c+1)*w] of tile i, (r, c) = (i // cols, i % cols)
TileBlock(i, h, w, cols) ==
    ((i \div cols) * h .. ((i \div cols) + 1) * h - 1)
        \X ((i % cols) * w .. ((i % cols) + 1) * w - 1)

\* C19: with a grid dimension of n elements, tiles of h x w pixels and the
\* layout rows x cols, the mosaic has rows * h x cols * w pixels; the block
\* [r*h:(r+1)*h, c*w:(c+1)*w], (r, c) = (i // cols, i % cols), lies inside
\* the mosaic and shows the slice that has the grid dimension at i and every
\* scroll or fixed dimension at its current index; the blocks of two
\* different tiles share no pixel, every pixel of the mosaic lies in a
\* block, and no pixel keeps the zero fill value.
C19_TilesPartitionMosaic ==
    GridDim # -1 =>
        LET n == dims[GridDim].size
            h == dims[XDim].size
            w == dims[YDim].size
            cols == TileLayout[2]
        IN  /\ DOMAIN DisplayImage.px
                  = (0 .. TileLayout[1] * h - 1) \X (0 .. cols * w - 1)
            /\ \A i \in 0 .. n - 1 :
                  /\ TileBlock(i, h, w, cols) \subseteq DOMAIN DisplayImage.px
                  /\ \A a \in 0 .. h - 1 : \A b \in 0 .. w - 1 :
                        DisplayImage.px[<<(i \div cols) * h + a, (i % cols) * w + b>>]
                            = TileElement(i, a, b)
                  /\ \A j \in 0 .. n - 1 :
                        j # i => TileBlock(i, h, w, cols) \cap TileBlock(j, h, w, cols) = {}
            /\ \A p \in DOMAIN DisplayImage.px :
                  /\ \E i \in 0 .. n - 1 : p \in TileBlock(i, h, w, cols)
                  /\ DOMAIN DisplayImage.px[p] # DOMAIN ZeroFill

\* a mosaic of at least two rows and two columns of tiles that are not
\* square and are transposed, with the scroll dimension off its initial
\* index or absent
C19_Witness ==
    /\ GridDim # -1
    /\ TileLayout[1] >= 2 /\ TileLayout[2] >= 2
    /\ dims[XDim].size # dims[YDim].size
    /\ YDim < XDim

-----------------------------------------------------------------------------
(* Properties of the active-data modes *)

\* the handler returned in state st with the role table, the indices and
\* the scroll dimension of the current state
KeepsRolesAndIndices(st) ==
    /\ st.dims = dims
    /\ st.scroll_dim_idx = scroll_dim_idx

\* C20: choosing a complex projection in the combo box, cycling it with key
\* c, turning the FFT view on with any answer to the prompt (a valid axis
\* list included) and turning it off leave the role and the index of every
\* dimension and the scroll dimension as they are.
C20_ModeSwitchKeepsRoles ==
    /\ is_complex_data =>
          \A text \in {"Magnitude", "Phase", "Real", "Imaginary"} :
              KeepsRolesAndIndices(ComplexComboStep(St, text))
    /\ KeepsRolesAndIndices(KeyCStep(St))
    /\ \A inp \in FftPromptInputs(Ndim(dims)) : KeepsRolesAndIndices(KeyFStep(St, inp))

\* the FFT view of a complex array is on, a projection other than the
\* initial one is selected, and the view axes, the grid dimension and an
\* index are not the initial ones
C20_Witness ==
    /\ is_fft_view /\ is_complex_data
    /\ complex_view_mode = "phase"
    /\ XDim # 0 /\ GridDim # -1
    /\ \E i \in Axes : dims[i].size = 2 /\ dims[i].index = 0

-----------------------------------------------------------------------------
(* Properties of construction and of arrayshow() *)

\* the role table and the playback and FFT state of the viewer have not
\* been created
NoRoleState(attrs) ==
    attrs \cap {"dims", "scroll_dim_idx", "is_playing", "loop_checkbox", "data",
                "is_fft_view", "fft_data", "fft_dims"} = {}

\* C21: for an array with fewer than 2 dimensions NDArrayViewer.__init__
\* raises ValueError before self.dims and the other role, playback and FFT
\* attributes are assigned, whether or not a canvas could be created, and no
\* VisPy viewer is shown; ArrayView.__init__ raises TypeError before it
\* assigns any attribute.  For an array with 2 or more dimensions neither
\* constructor raises these errors and both assign the role state.
C21_TooFewDimensionsRejected ==
    LET viewer == NDArrayViewer_init(launch.shape, launch.complex, launch.canvas_ok)
        view == ArrayView_init(launch.shape)
    IN  /\ Ndim(launch.shape) < MinNdim =>
              /\ viewer.raised = "ValueError"
              /\ NoRoleState(viewer.attrs) /\ NoRoleState(launch.attrs)
              /\ launch.shown # "vispy" /\ launch.raised # None
              /\ view.raised = "TypeError"
              /\ view.attrs = {}
        /\ Ndim(launch.shape) >= MinNdim =>
              /\ viewer.raised # "ValueError"
              /\ {"dims", "scroll_dim_idx"} \subseteq launch.attrs
              /\ view.raised = None
              /\ {"slices", "x", "y"} \subseteq view.attrs

\* arrayshow() was called on a one-dimensional array of two elements with
\* the fallback enabled on a remote display, and the fallback rejected the
\* array as well
C21_Witness ==
    /\ Ndim(launch.shape) = 1 /\ launch.shape[0] = 2
    /\ launch.fallback_matplotlib /\ launch.is_remote /\ launch.matplotlib_ok
    /\ launch.raised = "ValueError"
    /\ ~launch.canvas_ok

-----------------------------------------------------------------------------
(* Properties of rejected requests *)

\* the two indices typed into the view-dimension prompt, x first
TypedPair(x, y) == Text(<<Tok(x), Tok(y)>>)

\* index values next to and inside the range of the viewer's axes
NearAxes == -1 .. Ndim(dims)

\* C22: a view-axes request (key v) that names the same dimension twice, or
\* a dimension below 0 or at or above ndim, returns with the role and the
\* index of every dimension and the scroll dimension as they were; a request
\* with two different dimensions in range makes them view_x and view_y.
C22_BadViewAxesRejected ==
    \A x \in NearAxes, y \in NearAxes :
        LET after == KeyVStep(St, TypedPair(x, y))
        IN  IF x = y \/ x \notin Axes \/ y \notin Axes
            THEN KeepsRolesAndIndices(after)
            ELSE /\ after.dims[x].role = "view_x"
                 /\ after.dims[y].role = "view_y"

\* a viewer whose roles are not the initial ones: the view axes in reverse
\* order, a grid dimension, a fixed dimension below the scroll dimension
C22_Witness ==
    /\ XDim > YDim
    /\ GridDim # -1
    /\ scroll_dim_idx # -1
    /\ \E i \in Axes : dims[i].role = "fixed" /\ i < scroll_dim_idx

\* the axes typed into the FFT prompt
TypedAxes(inp) == {inp.parts[k].v : k \in 1 .. Len(inp.parts)}

\* the text is a list of integer literals
IsIntegerList(inp) == inp.ok /\ \A k \in 1 .. Len(inp.parts) : inp.parts[k].int

\* C23: key f with the FFT view off and a list of integers typed into the
\* prompt: if the list is empty or holds an axis below 0 or at or above ndim
\* the handler returns with the FFT view off and fft_data and fft_dims None;
\* otherwise the FFT view is on and fft_dims holds the typed axes, each once,
\* all in [0, ndim), and fft_data is the transform over these axes.  While
\* the FFT view is off, fft_data and fft_dims are None.
C23_FftAxesValidated ==
    /\ ~is_fft_view => fft_data = None /\ fft_dims = None
    /\ ~is_fft_view =>
          \A inp \in {i \in FftPromptInputs(Ndim(dims)) : IsIntegerList(i)} :
              LET after == KeyFStep(St, inp)
              IN  IF TypedAxes(inp) = {} \/ ~(TypedAxes(inp) \subseteq Axes)
                  THEN /\ ~after.is_fft_view
                       /\ after.fft_data = None
                       /\ after.fft_dims = None
                  ELSE /\ after.is_fft_view
                       /\ \A k \in 1 .. Len(after.fft_dims) : after.fft_dims[k] \in Axes
                       /\ \A j \in 1 .. Len(after.fft_dims), k \in 1 .. Len(after.fft_dims) :
                              j # k => after.fft_dims[j] # after.fft_dims[k]
                       /\ {after.fft_dims[k] : k \in 1 .. Len(after.fft_dims)}
                              = TypedAxes(inp)
                       /\ after.fft_data.axes = after.fft_dims

\* the FFT view is on over axes 0 and 1 of an array with three or more
\* dimensions
C23_Witness ==
    /\ is_fft_view
    /\ fft_dims = <<0, 1>>
    /\ fft_data.axes = <<0, 1>>
    /\ Ndim(dims) >= 3

-----------------------------------------------------------------------------
(* Properties of rendering *)

-----------------------------------------------------------------------------
(* Properties of arrayshow() *)

\* the VisPy viewer of the call failed with an exception
VispyFailed ==
    NDArrayViewer_init(launch.shape, launch.complex, launch.canvas_ok).raised # None

\* the matplotlib viewer can display the array of the call
MatplotlibWorks == launch.matplotlib_ok /\ Ndim(launch.shape) >= MinNdim

\* C25: with fallback_matplotlib=True, a call whose VisPy viewer fails with
\* an exception shows the matplotlib viewer (where matplotlib can display the
\* array); with fallback_matplotlib=False the exception of the VisPy viewer
\* leaves the call and no matplotlib viewer is shown.
C25_FallbackWheneverVispyFails ==
    /\ (launch.fallback_matplotlib /\ VispyFailed /\ MatplotlibWorks) =>
           launch.shown = "matplotlib"
    /\ (~launch.fallback_matplotlib /\ VispyFailed) =>
           /\ launch.shown = "none"
           /\ launch.raised =
                  NDArrayViewer_init(launch.shape, launch.complex, launch.canvas_ok).raised

\* the slicers render extracts 2D slices with: the one of the plain slice,
\* or one per tile of the mosaic
RenderSlicers ==
    IF GridDim = -1 THEN {view_slicer(dims)}
    ELSE {[view_slicer(dims) EXCEPT ![GridDim] = At(i)] : i \in 0 .. dims[GridDim].size - 1}

\* img is the transpose of raw: raw's columns are its rows
IsTransposeOf(img, raw) ==
    /\ img.h = raw.w /\ img.w = raw.h
    /\ DOMAIN img.px = (0 .. raw.w - 1) \X (0 .. raw.h - 1)
    /\ \A p \in DOMAIN img.px : img.px[p] = raw.px[<<p[2], p[1]>>]

\* C26: the 2D slice _get_single_slice returns, for the plain slice and for
\* every tile of a mosaic, is the transpose of the extracted subarray (whose
\* rows run along the lower of the two view axes) if view_y is a lower axis
\* than view_x, and the extracted subarray itself if view_x is the lower one,
\* whatever the sizes, the indices and the roles of the other dimensions.
C26_TransposeRule ==
    \A slicer \in RenderSlicers :
        LET raw == Subarray(dims, slicer)
            img == get_single_slice(dims, slicer)
        IN  /\ raw.h = dims[Min({XDim, YDim})].size
            /\ raw.w = dims[Max({XDim, YDim})].size
            /\ YDim < XDim => IsTransposeOf(img, raw)
            /\ XDim < YDim => img = raw

\* a mosaic whose tiles are transposed and not square
C26_Witness ==
    /\ GridDim # -1
    /\ dims[GridDim].size >= 2
    /\ YDim < XDim
    /\ dims[XDim].size > dims[YDim].size

-----------------------------------------------------------------------------
(* Properties of the re-partition *)

\* in the state st the lowest dimension that is not a view axis or the grid
\* dimension has role scroll and is the scroll dimension, and every other
\* such dimension has role fixed
LowestNonViewScrolls(st) ==
    LET nonview == {i \in DOMAIN st.dims : ~IsView(st.dims[i].role)}
    IN  /\ \A i \in nonview :
              st.dims[i].role = IF i = Min(nonview) THEN "scroll" ELSE "fixed"
        /\ st.scroll_dim_idx = IF nonview = {} THEN -1 ELSE Min(nonview)

\* C27: every click on [X] or [Y], every accepted answer to the view-axes
\* prompt and every click on [G] of a dimension other than view_x and view_y
\* returns with the scroll role on the lowest dimension that is not view_x,
\* view_y or view_grid and with every other such dimension fixed; the
\* re-partition (_reassign_scroll_and_fixed) leaves a view_grid dimension
\* view_grid, so the dimension a click on [G] makes the grid dimension is the
\* grid dimension on return.
C27_RepartitionLowestFirst ==
    /\ \A d \in Axes, axis \in {0, 1} : LowestNonViewScrolls(ViewButtonStep(St, d, axis))
    /\ \A x \in Axes, y \in Axes :
          x # y => LowestNonViewScrolls(KeyVStep(St, TypedPair(x, y)))
    /\ \A d \in Axes \ {XDim, YDim} :
          LET after == GridButtonStep(St, d)
          IN  /\ LowestNonViewScrolls(after)
              /\ d # GridDim => after.dims[d].role = "view_grid"
              /\ d = GridDim => \A i \in Axes : after.dims[i].role # "view_grid"
    /\ \A i \in Axes :
          dims[i].role = "view_grid" =>
              reassign_scroll_and_fixed(dims).dims[i].role = "view_grid"

\* there is a grid dimension, and the scroll dimension is not the lowest of
\* the dimensions that are neither view axes nor the grid dimension
C27_Witness ==
    /\ GridDim # -1
    /\ Cardinality(NonViewDims) >= 2
    /\ scroll_dim_idx > Min(NonViewDims)

-----------------------------------------------------------------------------
(* Properties of playback *)

\* the index and the last index of the scroll dimension, -1 without one
ScrollIndex == IF scroll_dim_idx = -1 THEN -1 ELSE dims[scroll_dim_idx].index
LastIndex == IF scroll_dim_idx = -1 THEN -1 ELSE dims[scroll_dim_idx].size - 1

\* C28: in a playback session (ticks only while playback runs) playback that
\* runs with Loop unchecked eventually stops, and a step in which playback
\* stops happens with Loop unchecked and ends with the scroll index at
\* size - 1; with Loop checked a tick never stops playback, and every value
\* of 0 .. size - 1 is the scroll index again and again.
C28_PlaybackSession ==
    /\ (is_playing /\ ~loop_checked) ~> (~is_playing /\ ScrollIndex = LastIndex)
    /\ [][(is_playing /\ ~is_playing') =>
              (~loop_checked /\ ScrollIndex' = LastIndex')]_vars
    /\ [][(is_playing /\ loop_checked) => is_playing']_vars
    /\ \A v \in 0 .. MaxGridSize - 1 :
          []((is_playing /\ loop_checked /\ v <= LastIndex) => []<>(ScrollIndex = v))

\* playback runs with Loop checked and has wrapped round to index 0 of a
\* scroll dimension of six or more elements
C28_Witness ==
    /\ is_playing /\ loop_checked
    /\ LastIndex >= 5
    /\ ScrollIndex = 0

\* C29: in every reachable state playback runs only if there is a scroll
\* dimension (scroll_dim_idx is not -1), and the scroll dimension has role
\* scroll; a click on Play without a scroll dimension returns with playback
\* off, and with one it toggles playback.
C29_PlaybackNeedsScroll ==
    /\ is_playing => scroll_dim_idx # -1 /\ dims[scroll_dim_idx].role = "scroll"
    /\ scroll_dim_idx = -1 => ~PlayButtonStep(St).is_playing
    /\ scroll_dim_idx # -1 => PlayButtonStep(St).is_playing = ~is_playing

\* an array of three or more dimensions whose only dimension besides the
\* view axes is the grid dimension: there is no scroll dimension
C29_Witness ==
    /\ Ndim(dims) >= 3
    /\ GridDim # -1
    /\ scroll_dim_idx = -1
    /\ ~is_playing

\* C30: the handlers of the [X] and [Y] buttons, of the view-axes prompt
\* (whatever is typed), of the [G] button and key g, of _set_scroll_dimension,
\* of keys h and l, of keys j and k, and of a slider press or move return
\* with playback stopped; a tick that finds playback running leaves it
\* running unless the scroll index is the last one and Loop is unchecked
\* (its slider refresh runs no slider handler).
C30_OperationsStopPlayback ==
    /\ \A d \in Axes :
          /\ \A axis \in {0, 1} : ~ViewButtonStep(St, d, axis).is_playing
          /\ ~GridButtonStep(St, d).is_playing
          /\ ~SetScrollDimensionStep(St, d).is_playing
          /\ ~SliderPressedStep(St, d).is_playing
          /\ \A value \in 0 .. dims[d].size - 1 : ~SliderMovedStep(St, d, value).is_playing
    /\ \A inp \in ViewPromptInputs(Ndim(dims)) : ~KeyVStep(St, inp).is_playing
    /\ ~KeyGStep(St).is_playing
    /\ \A direction \in {"next", "prev"} : ~KeyCycleStep(St, direction).is_playing
    /\ \A key \in {"j", "k"} : ~KeyStepStep(St, key).is_playing
    /\ is_playing =>
          (TickStep(St).is_playing <=> ~(ScrollIndex = LastIndex /\ ~loop_checked))

\* playback runs with Loop unchecked below the last index of the scroll
\* dimension
C30_Witness ==
    /\ is_playing /\ ~loop_checked
    /\ ScrollIndex < LastIndex

-----------------------------------------------------------------------------
(* Properties of the crosshair readout *)

\* C31: the 2D slice the mouse-move handler reads has the height and the
\* width of the image render displays, and shows at every position the
\* array element the displayed image shows there.
C31_CrosshairReadsDisplayedImage ==
    LET display_slice == crosshair_slice(dims)
    IN  /\ display_slice.h = DisplayImage.h
        /\ display_slice.w = DisplayImage.w
        /\ \A p \in DOMAIN DisplayImage.px : display_slice.px[p] = DisplayImage.px[p]

-----------------------------------------------------------------------------
(* Properties of the slider press *)

\* C32: a press on the slider of a dimension d with role fixed returns with
\* d as the scroll dimension, the previous scroll dimension fixed and every
\* other role as it was; a press on the slider of a dimension with role
\* scroll, view_x, view_y or view_grid returns with every role and the
\* scroll dimension as they were.
C32_SliderPressMovesScroll ==
    \A d \in Axes :
        LET after == SliderPressedStep(St, d)
        IN  IF dims[d].role = "fixed"
            THEN /\ after.scroll_dim_idx = d
                 /\ \A i \in Axes :
                       after.dims[i].role =
                           IF i = d THEN "scroll"
                           ELSE IF i = scroll_dim_idx THEN "fixed"
                           ELSE dims[i].role
            ELSE /\ after.scroll_dim_idx = scroll_dim_idx
                 /\ \A i \in Axes : after.dims[i].role = dims[i].role

\* the scroll dimension lies between two fixed dimensions
C32_Witness ==
    /\ scroll_dim_idx # -1
    /\ \E i \in Axes : dims[i].role = "fixed" /\ i < scroll_dim_idx
    /\ \E j \in Axes : dims[j].role = "fixed" /\ j > scroll_dim_idx

-----------------------------------------------------------------------------
(* Properties of the cached scroll dimension *)

\* the dimensions whose role is scroll
ScrollDims == {i \in Axes : dims[i].role = "scroll"}

\* C33: in every reachable state scroll_dim_idx is -1 if no dimension has
\* role scroll, and otherwise exactly one dimension has role scroll and
\* scroll_dim_idx is that dimension.
C33_ScrollIndexAgreesWithRoles ==
    /\ Cardinality(ScrollDims) <= 1
    /\ ScrollDims = {} => scroll_dim_idx = -1
    /\ ScrollDims # {} => ScrollDims = {scroll_dim_idx}

\* the view axes are swapped and the scroll role was moved by the user to
\* the highest of three dimensions that are not view axes
C33_Witness ==
    /\ Ndim(dims) = 5
    /\ XDim = 1 /\ YDim = 0
    /\ scroll_dim_idx = 4
    /\ GridDim = -1

-----------------------------------------------------------------------------
(* Properties of the indices under role changes *)

\* C34: a click on [X], [Y] or [G], key g, any answer to the view-axes
\* prompt, _set_scroll_dimension, keys h and l and a slider press return
\* with the index of every dimension as it was; so does a view-axes request
\* followed by the request that makes the previous pair the view axes again.
C34_RoleChangesKeepIndices ==
    /\ \A d \in Axes :
          /\ \A axis \in {0, 1} : SameIndices(ViewButtonStep(St, d, axis).dims)
          /\ SameIndices(GridButtonStep(St, d).dims)
          /\ SameIndices(SetScrollDimensionStep(St, d).dims)
          /\ SameIndices(SliderPressedStep(St, d).dims)
    /\ \A inp \in ViewPromptInputs(Ndim(dims)) : SameIndices(KeyVStep(St, inp).dims)
    /\ SameIndices(KeyGStep(St).dims)
    /\ \A direction \in {"next", "prev"} : SameIndices(KeyCycleStep(St, direction).dims)
    /\ \A x \in Axes, y \in Axes :
          x # y => SameIndices(KeyVStep(KeyVStep(St, SetViewAxes(x, y)),
                                        SetViewAxes(XDim, YDim)).dims)

\* a dimension of two elements was moved off its initial index and is a view
\* axis or the grid dimension now
C34_Witness ==
    \E i \in Axes :
        /\ IsView(dims[i].role)
        /\ dims[i].size = 2
        /\ dims[i].index = 0

-----------------------------------------------------------------------------
(* Properties of round trips *)

\* C35: without a grid dimension, toggle_grid(d) on a dimension d with role
\* scroll or fixed followed by toggle_grid(d) again returns with the role of
\* every dimension as it was before the first call.
C35_GridToggleRoundTrip ==
    GridDim = -1 =>
        \A d \in Axes :
            dims[d].role \in {"scroll", "fixed"} =>
                LET back == GridButtonStep(GridButtonStep(St, d), d)
                IN  \A i \in Axes : back.dims[i].role = dims[i].role

\* C36: a click on [X] of the dimension that is view_x, or on [Y] of the
\* dimension that is view_y, returns with the role of every dimension as it
\* was, a view_grid dimension and the scroll dimension included.
C36_ReselectViewAxisKeepsRoles ==
    /\ \A i \in Axes : ViewButtonStep(St, XDim, 0).dims[i].role = dims[i].role
    /\ \A i \in Axes : ViewButtonStep(St, YDim, 1).dims[i].role = dims[i].role
    /\ ViewButtonStep(St, XDim, 0).scroll_dim_idx = scroll_dim_idx
    /\ ViewButtonStep(St, YDim, 1).scroll_dim_idx = scroll_dim_idx

-----------------------------------------------------------------------------
(* Properties of the FFT view of complex data *)

\* C37: while the FFT view is on, fft_data is the transform of the
\* projection of the input selected by complex_view_mode (of the input
\* itself for real data), over the axes in fft_dims.
C37_FftOfCurrentProjection ==
    is_fft_view =>
        /\ fft_data.axes = fft_dims
        /\ fft_data.of = get_complex_view_data(is_complex_data, complex_view_mode, data)

-----------------------------------------------------------------------------
(* The matplotlib ArrayView (src/src/arrayview.py): key_press as a function *)
(* from the object's attributes v and the key to the attributes it leaves   *)

\* [self.x, self.y, self.z, self.c]
ViewAxes(v) == {v.x, v.y, v.z, v.c}

\* keys up (step = 1) and down (step = -1)
key_up_down(v, step) ==
    IF v.d \notin ViewAxes(v)
    THEN [v EXCEPT !.slices[v.d] = (v.slices[v.d] + step) % v.shape[v.d]]
    ELSE [v EXCEPT !.flips[v.d] = -v.flips[v.d]]

\* keys right (step = 1) and left (step = -1)
key_left_right(v, step) == [v EXCEPT !.d = (v.d + step) % v.ndim]

\* faulty variant: key x does not look at z and c
key_x_no_guard(v) ==
    IF v.d = v.x THEN v
    ELSE IF v.d = v.y THEN [v EXCEPT !.x = v.y, !.y = v.x]
    ELSE [v EXCEPT !.x = v.d]

key_x(v) ==
    IF v.d \in {v.x, v.z, v.c} THEN v
    ELSE IF v.d = v.y THEN [v EXCEPT !.x = v.y, !.y = v.x]
    ELSE [v EXCEPT !.x = v.d]

key_y(v) ==
    IF v.d \in {v.y, v.z, v.c} THEN v
    ELSE IF v.d = v.x THEN [v EXCEPT !.x = v.y, !.y = v.x]
    ELSE [v EXCEPT !.y = v.d]

key_z(v) ==
    IF v.d \in {v.x, v.y, v.c} THEN v
    ELSE IF v.d = v.z THEN [v EXCEPT !.z = NoAxis]
    ELSE [v EXCEPT !.z = v.d]

key_t(v) == [v EXCEPT !.x = v.y, !.y = v.x]

\* a digit key, n = int(event.key)
key_digit(v, n) ==
    IF v.d \in ViewAxes(v) THEN v
    ELSE IF v.entering_slice THEN [v EXCEPT !.entered_slice = v.entered_slice * 10 + n]
    ELSE [v EXCEPT !.entering_slice = TRUE, !.entered_slice = n]

key_backspace(v) ==
    IF v.d \in ViewAxes(v) THEN v
    ELSE IF v.entering_slice
    THEN (IF v.entered_slice < 10 THEN [v EXCEPT !.entering_slice = FALSE]
          ELSE [v EXCEPT !.entered_slice = v.entered_slice \div 10])
    ELSE v

key_enter(v) ==
    IF ~v.entering_slice THEN v
    ELSE IF v.entered_slice < v.shape[v.d]
    THEN [v EXCEPT !.entering_slice = FALSE, !.slices[v.d] = v.entered_slice]
    ELSE [v EXCEPT !.entering_slice = FALSE]

\* key_press(event): the keys that assign the axes, the current axis, the
\* slices and the slice entry
key_press(v, key) ==
    IF key = "up" THEN key_up_down(v, 1)
    ELSE IF key = "down" THEN key_up_down(v, -1)
    ELSE IF key = "left" THEN key_left_right(v, -1)
    ELSE IF key = "right" THEN key_left_right(v, 1)
    ELSE IF key = "x" THEN key_x(v)
    ELSE IF key = "y" THEN key_y(v)
    ELSE IF key = "z" THEN key_z(v)
    ELSE IF key = "t" THEN key_t(v)
    ELSE IF key = "backspace" THEN key_backspace(v)
    ELSE IF key = "enter" THEN key_enter(v)
    ELSE v

\* the NDArrayViewer does not exist while an ArrayView figure is shown
NoViewer ==
    /\ dims = Unset /\ scroll_dim_idx = Unset /\ is_playing = Unset
    /\ loop_checked = Unset /\ is_complex_data = Unset
    /\ complex_view_mode = Unset /\ data = Unset /\ is_fft_view = Unset
    /\ fft_data = Unset /\ fft_dims = Unset /\ launch = Unset

viewerVars == <<dims, scroll_dim_idx, is_playing, loop_checked, is_complex_data,
                complex_view_mode, data, is_fft_view, fft_data, fft_dims, launch>>

\* x, y, z and c of the object v name different axes
DistinctAxes(v) ==
    /\ v.x # v.y
    /\ v.z # NoAxis => v.z \notin {v.x, v.y, v.c}
    /\ v.c # NoAxis => v.c \notin {v.x, v.y}

\* the most dimensions of the arrays shown in an ArrayView: the fewest with
\* which x, y, z and c can all be set
ArrayViewNdim == MinNdim + 2

OptionalAxes(ndim) == {Nothing} \cup {Some(n) : n \in 0 .. ndim - 1}

\* ArrayView(im, x, y, z, c) on arrays of at most ArrayViewNdim dimensions
\* with up to MaxVolume elements, with axis arguments (negative ones
\* included) that name different axes
InitArrayView ==
    /\ NoViewer
    /\ \E shape \in ShapesUpTo(ArrayViewNdim, MaxVolume) :
          LET ndim == Cardinality(DOMAIN shape)
          IN  \E x \in -ndim .. ndim - 1, y \in -ndim .. ndim - 1 :
              \E z \in OptionalAxes(ndim), c \in OptionalAxes(ndim) :
                  /\ DistinctAxes(ArrayView_new(shape, x, y, z, c))
                  /\ arrayview = ArrayView_new(shape, x, y, z, c)

\* key_press returns with the attributes nv
Pressed(nv) == arrayview' = nv /\ UNCHANGED viewerVars

KeyUpDown(key) == Pressed(key_press(arrayview, key))

KeyLeftRight(key) == Pressed(key_press(arrayview, key))

KeyAxis(key) == Pressed(key_press(arrayview, key))

KeyT == Pressed(key_press(arrayview, "t"))

\* a digit key; the number typed so far stays within MaxEnteredSlice
KeyDigit(n) ==
    /\ key_digit(arrayview, n).entering_slice =>
           key_digit(arrayview, n).entered_slice <= MaxEnteredSlice
    /\ Pressed(key_digit(arrayview, n))

KeyBackspace == Pressed(key_press(arrayview, "backspace"))

KeyEnter == Pressed(key_press(arrayview, "enter"))

NextArrayView ==
    \/ \E key \in {"up", "down"} : KeyUpDown(key)
    \/ \E key \in {"left", "right"} : KeyLeftRight(key)
    \/ \E key \in {"x", "y", "z"} : KeyAxis(key)
    \/ KeyT
    \/ \E n \in 0 .. 9 : KeyDigit(n)
    \/ KeyBackspace
    \/ KeyEnter

SpecArrayView == InitArrayView /\ [][NextArrayView]_vars

\* C38: in the ArrayView, started with x, y, z and c on different axes,
\* after every sequence of the keys x, y, z, t, left, right, up, down, the
\* digits, backspace and enter the axes x, y and (when set) z and c are
\* pairwise different axes of the array, the current axis d is in
\* [0, ndim) and every slices[i] is in [0, shape[i]).
C38_ArrayViewKeysKeepAxes ==
    /\ DistinctAxes(arrayview)
    /\ {arrayview.x, arrayview.y} \subseteq 0 .. arrayview.ndim - 1
    /\ {arrayview.z, arrayview.c} \subseteq {NoAxis} \cup 0 .. arrayview.ndim - 1
    /\ arrayview.d \in 0 .. arrayview.ndim - 1
    /\ \A i \in DOMAIN arrayview.shape :
          arrayview.slices[i] \in 0 .. arrayview.shape[i] - 1

\* on a four-dimensional array with z and c both set (so every axis is a
\* view axis), a dimension of size 2 shows slice 0 and not the slice 1 it
\* started on: z was released with key z, the slice of the freed axis moved
\* (with up or down, or a typed 0 stored with enter) and z taken again
C38_Witness ==
    /\ arrayview.ndim = 4
    /\ arrayview.z # NoAxis /\ arrayview.c # NoAxis
    /\ arrayview.d \in ViewAxes(arrayview)
    /\ \E i \in DOMAIN arrayview.shape :
          arrayview.shape[i] = 2 /\ arrayview.slices[i] = 0
    /\ ~arrayview.entering_slice
====
